---------------------------- MODULE Spec2Model ----------------------------
(***************************************************************************)
(* A model of the Scheme interpreter: the parser of src/src/parser.cpp     *)
(* (Syntax -> Expr), the evaluator of src/src/evaluation.cpp               *)
(* (Expr x Assoc -> Value) and the read-eval-print loop of                 *)
(* src/src/main.cpp.                                                       *)
(*                                                                         *)
(* The heap is explicit.  An Assoc is a reference (0 is the null pointer)  *)
(* into a sequence of frames, a Pair value is a reference into a sequence  *)
(* of pair cells.  eval takes the Assoc by reference (Assoc &e) and may    *)
(* assign to it (Define::eval), so every evaluation returns the reference  *)
(* it leaves behind together with the heap.                                *)
(***************************************************************************)
EXTENDS Integers, Sequences, FiniteSets, TLC

VARIABLES
    argOrder,    \* order in which this build evaluates the operands of a call
    session,     \* the forms on standard input, in order
    pos,         \* number of forms the REPL has read
    global_env,  \* REPL: Assoc global_env
    frames,      \* heap of AssocList nodes
    pairs,       \* heap of Pair cells
    exprs,       \* per form read: the Expr parse returned, or ParseFailed
    res,         \* per form read: the outcome of the try block
    loop,        \* "reading", "hung" (inside an eval that never returns), "exited"
    il_pc,       \* list machine: "idle", or "loop" inside IsList::evalRator
    il_arg,      \* list machine: the operand of the list? call
    il_cur,      \* list machine: IsList::evalRator's local `current`
    il_res       \* list machine: the result of the last list? call

vars == <<argOrder, session, pos, global_env, frames, pairs, exprs, res,
          loop, il_pc, il_arg, il_cur, il_res>>

(***************************************************************************)
(* Bounds of the model.                                                    *)
(***************************************************************************)
MaxArgs == 3      \* operands of the and / or forms that are enumerated
MaxInt == 2       \* integer literals 0..MaxInt used in enumerated forms
MaxCells == 2     \* pair cells of the list machine

(***************************************************************************)
(* Syntax trees (the reader's output).                                     *)
(***************************************************************************)
Num(n) == [k |-> "Number", n |-> n]
Rat(n, d) == [k |-> "RationalSyntax", n |-> n, d |-> d]
Sym(s) == [k |-> "SymbolSyntax", s |-> s]
Str(s) == [k |-> "StringSyntax", s |-> s]
TrueS == [k |-> "TrueSyntax"]
FalseS == [k |-> "FalseSyntax"]
L(xs) == [k |-> "List", stxs |-> xs]

(***************************************************************************)
(* Values.  NullPtr is Value(nullptr), what find returns for a miss.       *)
(***************************************************************************)
NullPtr == [t |-> "nullptr"]
IntegerV(n) == [t |-> "V_INT", n |-> n]
RationalV(n, d) == [t |-> "V_RATIONAL", n |-> n, d |-> d]
BooleanV(b) == [t |-> "V_BOOL", b |-> b]
StringV(s) == [t |-> "V_STRING", s |-> s]
SymbolV(s) == [t |-> "V_SYM", s |-> s]
NullV == [t |-> "V_NULL"]
VoidV == [t |-> "V_VOID"]
TerminateV == [t |-> "V_TERMINATE"]
PairRef(p) == [t |-> "V_PAIR", p |-> p]
ProcedureV(params, body, env) ==
    [t |-> "V_PROC", parameters |-> params, e |-> body, env |-> env]

(***************************************************************************)
(* Environment: a chain of AssocList nodes in the frame heap.              *)
(***************************************************************************)
empty == 0

RECURSIVE find(_, _, _)
find(x, l, fr) ==
    IF l = 0 THEN NullPtr
    ELSE IF fr[l].x = x THEN fr[l].v
    ELSE find(x, fr[l].next, fr)

\* extend allocates one node in front of l; the new reference is Len(fr) + 1.
extend(x, v, l, fr) == Append(fr, [x |-> x, v |-> v, next |-> l])

RECURSIVE modify(_, _, _, _)
modify(x, v, l, fr) ==
    IF l = 0 THEN fr
    ELSE IF fr[l].x = x THEN [fr EXCEPT ![l].v = v]
    ELSE modify(x, v, fr[l].next, fr)

(***************************************************************************)
(* The two global name tables.                                             *)
(***************************************************************************)
reserved_words ==
    ("quote" :> "E_QUOTE") @@ ("if" :> "E_IF") @@ ("cond" :> "E_COND") @@
    ("lambda" :> "E_LAMBDA") @@ ("define" :> "E_DEFINE") @@
    ("let" :> "E_LET") @@ ("letrec" :> "E_LETREC") @@ ("set!" :> "E_SET") @@
    ("begin" :> "E_BEGIN")

primitives ==
    ("+" :> "E_PLUS") @@ ("-" :> "E_MINUS") @@ ("*" :> "E_MUL") @@
    ("/" :> "E_DIV") @@ ("modulo" :> "E_MODULO") @@ ("expt" :> "E_EXPT") @@
    ("<" :> "E_LT") @@ ("<=" :> "E_LE") @@ ("=" :> "E_EQ") @@
    (">=" :> "E_GE") @@ (">" :> "E_GT") @@
    ("cons" :> "E_CONS") @@ ("car" :> "E_CAR") @@ ("cdr" :> "E_CDR") @@
    ("set-car!" :> "E_SETCAR") @@ ("set-cdr!" :> "E_SETCDR") @@
    ("list" :> "E_LIST") @@ ("list?" :> "E_LISTQ") @@
    ("boolean?" :> "E_BOOLQ") @@ ("number?" :> "E_INTQ") @@
    ("null?" :> "E_NULLQ") @@ ("pair?" :> "E_PAIRQ") @@
    ("procedure?" :> "E_PROCQ") @@ ("symbol?" :> "E_SYMBOLQ") @@
    ("string?" :> "E_STRINGQ") @@ ("eq?" :> "E_EQQ") @@
    ("not" :> "E_NOT") @@ ("and" :> "E_AND") @@ ("or" :> "E_OR") @@
    ("void" :> "E_VOID") @@ ("display" :> "E_DISPLAY") @@ ("exit" :> "E_EXIT")

(***************************************************************************)
(* Expression trees.  NoExpr is Expr(nullptr) (an If without alternative). *)
(***************************************************************************)
NoExpr == [e |-> "nullptr"]
Fixnum(n) == [e |-> "Fixnum", n |-> n]
RationalNum(n, d) == [e |-> "RationalNum", n |-> n, d |-> d]
StringExpr(s) == [e |-> "StringExpr", s |-> s]
True == [e |-> "True"]
False == [e |-> "False"]
MakeVoid == [e |-> "MakeVoid"]
Exit == [e |-> "Exit"]
Var(x) == [e |-> "Var", x |-> x]
Quote(s) == [e |-> "Quote", stx |-> s]
Unary(op, rand) == [e |-> "Unary", op |-> op, rand |-> rand]
Binary(op, rand1, rand2) ==
    [e |-> "Binary", op |-> op, rand1 |-> rand1, rand2 |-> rand2]
Variadic(op, rands) == [e |-> "Variadic", op |-> op, rands |-> rands]
AndVar(rands) == [e |-> "AndVar", rands |-> rands]
OrVar(rands) == [e |-> "OrVar", rands |-> rands]
Begin(es) == [e |-> "Begin", es |-> es]
If(c, t, a) == [e |-> "If", cond |-> c, conseq |-> t, alter |-> a]
Cond(clauses) == [e |-> "Cond", clauses |-> clauses]
Lambda(x, body) == [e |-> "Lambda", params |-> x, body |-> body]
Apply(rator, rand) == [e |-> "Apply", rator |-> rator, rands |-> rand]
Define(var, body) == [e |-> "Define", var |-> var, body |-> body]
Let(bind, body) == [e |-> "Let", bind |-> bind, body |-> body]
Letrec(bind, body) == [e |-> "Letrec", bind |-> bind, body |-> body]
Set(var, body) == [e |-> "Set", var |-> var, body |-> body]

(***************************************************************************)
(* Parser: Syntax::parse and its overrides.  A parse either returns an     *)
(* Expr or throws a RuntimeError (ParseFailed).  Parsing has no side       *)
(* effect, so the order in which sub-forms are parsed only decides which   *)
(* message is thrown, and the model keeps no message.                      *)
(***************************************************************************)
ParseFailed == [ok |-> FALSE]
Parsed(ex) == [ok |-> TRUE, ex |-> ex]

IsSymbolSyntax(stx) == stx.k = "SymbolSyntax"
IsListSyntax(stx) == stx.k = "List"
AllSymbols(xs) == \A i \in 1..Len(xs) : IsSymbolSyntax(xs[i])
SymbolNames(xs) == [i \in 1..Len(xs) |-> xs[i].s]
From(xs, i) == SubSeq(xs, i, Len(xs))

\* body_exprs.size() == 1 ? body_exprs[0] : Expr(new Begin(body_exprs))
BodyOf(body_exprs) ==
    IF Len(body_exprs) = 1 THEN body_exprs[1] ELSE Begin(body_exprs)

\* The primitives parsed to a fixed-arity node, with the node they build.
UnaryNode ==
    ("E_CAR" :> "Car") @@ ("E_CDR" :> "Cdr") @@ ("E_NOT" :> "Not") @@
    ("E_BOOLQ" :> "IsBoolean") @@ ("E_INTQ" :> "IsFixnum") @@
    ("E_NULLQ" :> "IsNull") @@ ("E_PAIRQ" :> "IsPair") @@
    ("E_PROCQ" :> "IsProcedure") @@ ("E_SYMBOLQ" :> "IsSymbol") @@
    ("E_STRINGQ" :> "IsString") @@ ("E_LISTQ" :> "IsList")

BinaryNode ==
    ("E_MODULO" :> "Modulo") @@ ("E_CONS" :> "Cons") @@
    ("E_SETCAR" :> "SetCar") @@ ("E_SETCDR" :> "SetCdr")

\* Comparisons: a Binary node for exactly two operands, else the Variadic.
CompareNode ==
    ("E_LT" :> <<"Less", "LessVar">>) @@ ("E_LE" :> <<"LessEq", "LessEqVar">>) @@
    ("E_EQ" :> <<"Equal", "EqualVar">>) @@
    ("E_GE" :> <<"GreaterEq", "GreaterEqVar">>) @@
    ("E_GT" :> <<"Greater", "GreaterVar">>)

VariadicNode ==
    ("E_PLUS" :> "PlusVar") @@ ("E_MINUS" :> "MinusVar") @@
    ("E_MUL" :> "MultVar") @@ ("E_DIV" :> "DivVar") @@ ("E_LIST" :> "ListFunc")

RECURSIVE parse(_, _, _)
RECURSIVE parseAll(_, _, _)

\* for (i...) parameters.push_back(stxs[i]->parse(env))
parseAll(stxs, env, fr) ==
    IF stxs = <<>> THEN [ok |-> TRUE, exs |-> <<>>]
    ELSE LET h == parse(Head(stxs), env, fr)
             t == parseAll(Tail(stxs), env, fr)
         IN  IF h.ok /\ t.ok THEN [ok |-> TRUE, exs |-> <<h.ex>> \o t.exs]
             ELSE [ok |-> FALSE, exs |-> <<>>]

\* case E_COND
parseCond(stxs, env, fr) ==
    LET cl == [i \in 1..(Len(stxs) - 1) |->
                  IF IsListSyntax(stxs[i + 1])
                  THEN parseAll(stxs[i + 1].stxs, env, fr)
                  ELSE [ok |-> FALSE, exs |-> <<>>]]
    IN  IF \A i \in 1..Len(cl) : cl[i].ok
        THEN Parsed(Cond([i \in 1..Len(cl) |-> cl[i].exs]))
        ELSE ParseFailed

\* case E_LAMBDA
parseLambda(stxs, parameters) ==
    IF Len(parameters) < 2 THEN ParseFailed
    ELSE IF ~IsListSyntax(stxs[2]) THEN ParseFailed
    ELSE IF ~AllSymbols(stxs[2].stxs) THEN ParseFailed
    ELSE Parsed(Lambda(SymbolNames(stxs[2].stxs), BodyOf(From(parameters, 2))))

\* case E_DEFINE
parseDefine(stxs, parameters) ==
    IF Len(parameters) < 1 THEN ParseFailed
    ELSE IF IsListSyntax(stxs[2]) /\ stxs[2].stxs # <<>>
            /\ IsSymbolSyntax(stxs[2].stxs[1])
    THEN IF ~AllSymbols(Tail(stxs[2].stxs)) THEN ParseFailed
         ELSE Parsed(Define(stxs[2].stxs[1].s,
                            Lambda(SymbolNames(Tail(stxs[2].stxs)),
                                   BodyOf(From(parameters, 2)))))
    ELSE IF Len(parameters) # 2 THEN ParseFailed
    ELSE IF ~IsSymbolSyntax(stxs[2]) THEN ParseFailed
    ELSE Parsed(Define(stxs[2].s, parameters[2]))

\* case E_LET and case E_LETREC: the same shape checks, the same environment
\* for the initializers and the body; mk is Let or Letrec.
BindingOk(b) == IsListSyntax(b) /\ Len(b.stxs) = 2 /\ IsSymbolSyntax(b.stxs[1])

parseBindings(stxs, parameters, env, fr, rec) ==
    IF Len(parameters) < 2 THEN ParseFailed
    ELSE IF ~IsListSyntax(stxs[2]) THEN ParseFailed
    ELSE LET bl == stxs[2].stxs
             vals == [i \in 1..Len(bl) |->
                         IF BindingOk(bl[i]) THEN parse(bl[i].stxs[2], env, fr)
                         ELSE ParseFailed]
         IN  IF \E i \in 1..Len(bl) : ~vals[i].ok THEN ParseFailed
             ELSE LET bind == [i \in 1..Len(bl) |->
                                 [var |-> bl[i].stxs[1].s, ex |-> vals[i].ex]]
                      body == BodyOf(From(parameters, 2))
                  IN  Parsed(IF rec THEN Letrec(bind, body) ELSE Let(bind, body))

\* The reserved-word branch: every sub-form is parsed as an expression
\* first (vector<Expr> parameters), then the switch checks the shape.
parseReserved(op, stxs, env, fr) ==
    LET ps == parseAll(Tail(stxs), env, fr)
        parameters == ps.exs
        kind == reserved_words[op]
    IN  IF ~ps.ok THEN ParseFailed
        ELSE CASE kind = "E_BEGIN" -> Parsed(Begin(parameters))
               [] kind = "E_QUOTE" ->
                    IF Len(parameters) # 1 THEN ParseFailed
                    ELSE Parsed(Quote(stxs[2]))
               [] kind = "E_IF" ->
                    IF Len(parameters) < 2 \/ Len(parameters) > 3 THEN ParseFailed
                    ELSE Parsed(If(parameters[1], parameters[2],
                                   IF Len(parameters) = 3 THEN parameters[3]
                                   ELSE NoExpr))
               [] kind = "E_COND" -> parseCond(stxs, env, fr)
               [] kind = "E_LAMBDA" -> parseLambda(stxs, parameters)
               [] kind = "E_DEFINE" -> parseDefine(stxs, parameters)
               [] kind = "E_LET" -> parseBindings(stxs, parameters, env, fr, FALSE)
               [] kind = "E_LETREC" -> parseBindings(stxs, parameters, env, fr, TRUE)
               [] kind = "E_SET" ->
                    IF Len(parameters) # 2 THEN ParseFailed
                    ELSE IF ~IsSymbolSyntax(stxs[2]) THEN ParseFailed
                    ELSE Parsed(Set(stxs[2].s, parameters[2]))
               [] OTHER -> ParseFailed

\* The primitive branch.
parsePrimitive(op, stxs, env, fr) ==
    LET ps == parseAll(Tail(stxs), env, fr)
        parameters == ps.exs
        op_type == primitives[op]
    IN  IF ~ps.ok THEN ParseFailed
        ELSE CASE op_type \in DOMAIN VariadicNode ->
                    Parsed(Variadic(VariadicNode[op_type], parameters))
               [] op_type \in DOMAIN BinaryNode ->
                    IF Len(parameters) # 2 THEN ParseFailed
                    ELSE Parsed(Binary(BinaryNode[op_type],
                                       parameters[1], parameters[2]))
               [] op_type \in DOMAIN CompareNode ->
                    IF Len(parameters) = 2
                    THEN Parsed(Binary(CompareNode[op_type][1],
                                       parameters[1], parameters[2]))
                    ELSE Parsed(Variadic(CompareNode[op_type][2], parameters))
               [] op_type \in DOMAIN UnaryNode ->
                    IF Len(parameters) # 1 THEN ParseFailed
                    ELSE Parsed(Unary(UnaryNode[op_type], parameters[1]))
               [] op_type = "E_AND" -> Parsed(AndVar(parameters))
               [] op_type = "E_OR" -> Parsed(OrVar(parameters))
               [] OTHER -> Parsed(Apply(Var(op), parameters))

\* List::parse
List_parse(stxs, env, fr) ==
    IF stxs = <<>> THEN Parsed(Quote(L(<<>>)))
    ELSE IF ~IsSymbolSyntax(stxs[1])
    THEN LET args == parseAll(Tail(stxs), env, fr)
             rator == parse(stxs[1], env, fr)
         IN  IF args.ok /\ rator.ok THEN Parsed(Apply(rator.ex, args.exs))
             ELSE ParseFailed
    ELSE LET op == stxs[1].s
             args == parseAll(Tail(stxs), env, fr)
         IN  IF find(op, env, fr) # NullPtr
             THEN IF args.ok THEN Parsed(Apply(Var(op), args.exs)) ELSE ParseFailed
             ELSE IF op \in DOMAIN reserved_words
             THEN parseReserved(op, stxs, env, fr)
             ELSE IF op \in DOMAIN primitives
             THEN parsePrimitive(op, stxs, env, fr)
             ELSE IF args.ok THEN Parsed(Apply(Var(op), args.exs)) ELSE ParseFailed

parse(stx, env, fr) ==
    CASE stx.k = "Number" -> Parsed(Fixnum(stx.n))
      [] stx.k = "RationalSyntax" -> Parsed(RationalNum(stx.n, stx.d))
      [] stx.k = "SymbolSyntax" -> Parsed(Var(stx.s))
      [] stx.k = "StringSyntax" -> Parsed(StringExpr(stx.s))
      [] stx.k = "TrueSyntax" -> Parsed(True)
      [] stx.k = "FalseSyntax" -> Parsed(False)
      [] stx.k = "List" -> List_parse(stx.stxs, env, fr)

(***************************************************************************)
(* Primitive operators on values (the evalRator functions and their        *)
(* helpers).  A helper returns a value, or Thrown when it throws a         *)
(* RuntimeError.  Operators that touch pair cells take and return the      *)
(* pair heap: [k, v, pr] with k one of "ok", "RuntimeError", "diverges".   *)
(***************************************************************************)
Thrown == [t |-> "RuntimeError"]

IsNumeric(v) == v.t \in {"V_INT", "V_RATIONAL"}
\* numerator and denominator of a numeric value read as a fraction
NumOf(v) == v.n
DenOf(v) == IF v.t = "V_RATIONAL" THEN v.d ELSE 1
BothInt(v1, v2) == v1.t = "V_INT" /\ v2.t = "V_INT"

addValues(v1, v2) ==
    IF ~(IsNumeric(v1) /\ IsNumeric(v2)) THEN Thrown
    ELSE IF BothInt(v1, v2) THEN IntegerV(v1.n + v2.n)
    ELSE IF v1.t = "V_RATIONAL" /\ v2.t = "V_INT"
    THEN RationalV(v1.n + v2.n * v1.d, v1.d)
    ELSE IF v1.t = "V_INT" /\ v2.t = "V_RATIONAL"
    THEN RationalV(v1.n * v2.d + v2.n, v2.d)
    ELSE RationalV(v1.n * v2.d + v2.n * v1.d, v1.d * v2.d)

subtractValues(v1, v2) ==
    IF ~(IsNumeric(v1) /\ IsNumeric(v2)) THEN Thrown
    ELSE IF BothInt(v1, v2) THEN IntegerV(v1.n - v2.n)
    ELSE IF v1.t = "V_RATIONAL" /\ v2.t = "V_INT"
    THEN RationalV(v1.n - v2.n * v1.d, v1.d)
    ELSE IF v1.t = "V_INT" /\ v2.t = "V_RATIONAL"
    THEN RationalV(v1.n * v2.d - v2.n, v2.d)
    ELSE RationalV(v1.n * v2.d - v2.n * v1.d, v1.d * v2.d)

multiplyValues(v1, v2) ==
    IF ~(IsNumeric(v1) /\ IsNumeric(v2)) THEN Thrown
    ELSE IF BothInt(v1, v2) THEN IntegerV(v1.n * v2.n)
    ELSE IF v1.t = "V_RATIONAL" /\ v2.t = "V_INT"
    THEN RationalV(v1.n * v2.n, v1.d)
    ELSE IF v1.t = "V_INT" /\ v2.t = "V_RATIONAL"
    THEN RationalV(v1.n * v2.n, v2.d)
    ELSE RationalV(v1.n * v2.n, v1.d * v2.d)

\* division without the test for a zero divisor
divideValues_unchecked(v1, v2) ==
    IF ~(IsNumeric(v1) /\ IsNumeric(v2)) THEN Thrown
    ELSE RationalV(NumOf(v1) * DenOf(v2), DenOf(v1) * NumOf(v2))

divideValues(v1, v2) ==
    IF ~(IsNumeric(v1) /\ IsNumeric(v2)) THEN Thrown
    ELSE IF v2.n = 0 THEN Thrown
    ELSE IF BothInt(v1, v2) THEN RationalV(v1.n, v2.n)
    ELSE IF v1.t = "V_RATIONAL" /\ v2.t = "V_INT"
    THEN RationalV(v1.n, v1.d * v2.n)
    ELSE IF v1.t = "V_INT" /\ v2.t = "V_RATIONAL"
    THEN RationalV(v1.n * v2.d, v2.n)
    ELSE RationalV(v1.n * v2.d, v1.d * v2.n)

\* compareNumericValues: -1, 0 or 1 by cross-multiplication (no sign
\* normalisation); it throws exactly when compareThrows
compareThrows(v1, v2) == ~(IsNumeric(v1) /\ IsNumeric(v2))
compareNumericValues(v1, v2) ==
    LET left == NumOf(v1) * DenOf(v2)
        right == NumOf(v2) * DenOf(v1)
    IN  IF left < right THEN -1 ELSE IF left > right THEN 1 ELSE 0

\* C++ integer division and remainder (truncation toward zero), b # 0
Abs(a) == IF a < 0 THEN -a ELSE a
TruncDiv(a, b) ==
    IF (a >= 0) = (b > 0) THEN Abs(a) \div Abs(b) ELSE -(Abs(a) \div Abs(b))
CRem(a, b) == a - b * TruncDiv(a, b)

Modulo_evalRator(rand1, rand2) ==
    IF BothInt(rand1, rand2)
    THEN IF rand2.n = 0 THEN Thrown ELSE IntegerV(CRem(rand1.n, rand2.n))
    ELSE Thrown

INT_MAX == 2147483647
INT_MIN == -INT_MAX - 1

\* Is the mathematical product a * b outside [INT_MIN, INT_MAX]?  Decided by
\* division, so that nothing wider than an int is computed.
OutsideInt(a, b) ==
    IF a = 0 \/ b = 0 THEN FALSE
    ELSE IF a < 0 /\ b < 0
    THEN a = INT_MIN \/ b = INT_MIN \/ (-a) > INT_MAX \div (-b)
    ELSE IF a > 0 /\ b > 0 THEN a > INT_MAX \div b
    ELSE LET p == IF a > 0 THEN a ELSE b
             n == IF a > 0 THEN b ELSE a
             q == (INT_MAX \div p) + (IF INT_MAX % p = p - 1 THEN 1 ELSE 0)
         IN  IF p = 1 THEN FALSE ELSE n < -q

\* The square-and-multiply loop of Expt::evalRator.  result and b are long
\* long; bWide says that b has left the int range, after which its value is
\* read only by the multiplication into result, which then leaves the range
\* too (|b| > INT_MAX and result # 0).
RECURSIVE Expt_loop(_, _, _, _)
Expt_loop(result, b, bWide, exp) ==
    IF exp <= 0 THEN IntegerV(result)
    ELSE LET odd == exp % 2 = 1
             resultWide == odd /\ (bWide \/ OutsideInt(result, b))
             result1 == IF odd /\ ~resultWide THEN result * b ELSE result
             b1Wide == bWide \/ OutsideInt(b, b)
             b1 == IF b1Wide THEN b ELSE b * b
         IN  IF resultWide THEN Thrown
             ELSE IF b1Wide /\ exp > 1 THEN Thrown
             ELSE Expt_loop(result1, b1, b1Wide, exp \div 2)

\* expt that gives up as soon as the square of the base leaves the int range
Expt_evalRator_eager(rand1, rand2) ==
    IF BothInt(rand1, rand2)
    THEN IF rand2.n < 0 THEN Thrown
         ELSE IF rand1.n = 0 /\ rand2.n = 0 THEN Thrown
         ELSE IF rand2.n > 0 /\ OutsideInt(rand1.n, rand1.n) THEN Thrown
         ELSE Expt_loop(1, rand1.n, FALSE, rand2.n)
    ELSE Thrown

Expt_evalRator(rand1, rand2) ==
    IF BothInt(rand1, rand2)
    THEN IF rand2.n < 0 THEN Thrown
         ELSE IF rand1.n = 0 /\ rand2.n = 0 THEN Thrown
         ELSE Expt_loop(1, rand1.n, FALSE, rand2.n)
    ELSE Thrown

\* result = args[0]; for (i = 1 ...) result = op(result, args[i])
RECURSIVE foldValues(_, _, _)
foldValues(op, result, rest) ==
    IF result = Thrown \/ rest = <<>> THEN result
    ELSE foldValues(op,
                    CASE op = "add" -> addValues(result, Head(rest))
                      [] op = "sub" -> subtractValues(result, Head(rest))
                      [] op = "mul" -> multiplyValues(result, Head(rest))
                      [] op = "div" -> divideValues(result, Head(rest)),
                    Tail(rest))

PlusVar_evalRator(args) ==
    IF args = <<>> THEN IntegerV(0) ELSE foldValues("add", args[1], Tail(args))

MinusVar_evalRator(args) ==
    IF args = <<>> THEN Thrown
    ELSE IF Len(args) = 1 THEN subtractValues(IntegerV(0), args[1])
    ELSE foldValues("sub", args[1], Tail(args))

MultVar_evalRator(args) ==
    IF args = <<>> THEN IntegerV(1) ELSE foldValues("mul", args[1], Tail(args))

\* / that treats one argument as a fold with nothing to divide by
DivVar_evalRator_noReciprocal(args) ==
    IF args = <<>> THEN Thrown
    ELSE foldValues("div", args[1], Tail(args))

DivVar_evalRator(args) ==
    IF args = <<>> THEN Thrown
    ELSE IF Len(args) = 1 THEN divideValues(IntegerV(1), args[1])
    ELSE foldValues("div", args[1], Tail(args))

\* Does the comparison result c satisfy the relation of node op?
Related(op, c) ==
    CASE op \in {"Less", "LessVar"} -> c < 0
      [] op \in {"LessEq", "LessEqVar"} -> c <= 0
      [] op \in {"Equal", "EqualVar"} -> c = 0
      [] op \in {"GreaterEq", "GreaterEqVar"} -> c >= 0
      [] op \in {"Greater", "GreaterVar"} -> c > 0

\* Less, LessEq, Equal, GreaterEq, Greater ::evalRator
Compare_evalRator(op, rand1, rand2) ==
    IF compareThrows(rand1, rand2) THEN Thrown
    ELSE BooleanV(Related(op, compareNumericValues(rand1, rand2)))

\* LessVar ... GreaterVar ::evalRator
RECURSIVE CompareVar_loop(_, _, _)
CompareVar_loop(op, args, i) ==
    IF i > Len(args) - 1 THEN BooleanV(TRUE)
    ELSE IF compareThrows(args[i], args[i + 1]) THEN Thrown
    ELSE IF ~Related(op, compareNumericValues(args[i], args[i + 1]))
    THEN BooleanV(FALSE)
    ELSE CompareVar_loop(op, args, i + 1)

CompareVar_evalRator(op, args) ==
    IF Len(args) < 2 THEN BooleanV(TRUE) ELSE CompareVar_loop(op, args, 1)

\* PairV(car, cdr): a new cell; the value is the reference to it
PairV(car, cdr, pr) ==
    [v |-> PairRef(Len(pr) + 1), pr |-> Append(pr, [car |-> car, cdr |-> cdr])]

RECURSIVE ListFunc_evalRator(_, _)
ListFunc_evalRator(args, pr) ==
    IF args = <<>> THEN [v |-> NullV, pr |-> pr]
    ELSE LET rest == ListFunc_evalRator(Tail(args), pr)
         IN  PairV(Head(args), rest.v, rest.pr)

\* IsList::evalRator: follow cdr while current is a Pair.  The loop has no
\* other exit, so on a chain that never leaves the pair cells it runs for
\* ever; a walk longer than the number of cells is such a chain.
RECURSIVE IsList_walk(_, _, _)
IsList_walk(current, pr, steps) ==
    IF current.t # "V_PAIR" THEN BooleanV(current.t = "V_NULL")
    ELSE IF steps > Len(pr) THEN [t |-> "diverges"]
    ELSE IsList_walk(pr[current.p].cdr, pr, steps + 1)

IsList_evalRator(rand, pr) == IsList_walk(rand, pr, 0)

IsEq_evalRator(rand1, rand2) ==
    IF BothInt(rand1, rand2) THEN BooleanV(rand1.n = rand2.n)
    ELSE IF rand1.t = "V_BOOL" /\ rand2.t = "V_BOOL" THEN BooleanV(rand1.b = rand2.b)
    ELSE IF rand1.t = "V_SYM" /\ rand2.t = "V_SYM" THEN BooleanV(rand1.s = rand2.s)
    ELSE IF (rand1.t = "V_NULL" /\ rand2.t = "V_NULL")
            \/ (rand1.t = "V_VOID" /\ rand2.t = "V_VOID")
    THEN BooleanV(TRUE)
    \* pointer equality; object identity is kept for pair cells only
    ELSE BooleanV(rand1.t = "V_PAIR" /\ rand2.t = "V_PAIR" /\ rand1.p = rand2.p)

Not_evalRator(rand) ==
    IF rand.t = "V_BOOL" THEN BooleanV(~rand.b) ELSE BooleanV(FALSE)

PrimOk(v, pr) == [k |-> "ok", v |-> v, pr |-> pr]
PrimThrow(pr) == [k |-> "RuntimeError", v |-> NullPtr, pr |-> pr]
PrimOf(v, pr) ==
    IF v = Thrown THEN PrimThrow(pr)
    ELSE IF v.t = "diverges" THEN [k |-> "diverges", v |-> NullPtr, pr |-> pr]
    ELSE PrimOk(v, pr)

Car_evalRator(rand, pr) ==
    IF rand.t # "V_PAIR" THEN Thrown ELSE pr[rand.p].car

Cdr_evalRator(rand, pr) ==
    IF rand.t # "V_PAIR" THEN Thrown ELSE pr[rand.p].cdr

\* set-car! that writes a copy of the pair, not the pair
SetCar_evalRator_onCopy(rand1, rand2, pr) ==
    IF rand1.t # "V_PAIR" THEN PrimThrow(pr)
    ELSE PrimOk(VoidV, Append(pr, [car |-> rand2, cdr |-> pr[rand1.p].cdr]))

SetCar_evalRator(rand1, rand2, pr) ==
    IF rand1.t # "V_PAIR" THEN PrimThrow(pr)
    ELSE PrimOk(VoidV, [pr EXCEPT ![rand1.p].car = rand2])

SetCdr_evalRator(rand1, rand2, pr) ==
    IF rand1.t # "V_PAIR" THEN PrimThrow(pr)
    ELSE PrimOk(VoidV, [pr EXCEPT ![rand1.p].cdr = rand2])

Cons_evalRator(rand1, rand2, pr) ==
    LET c == PairV(rand1, rand2, pr) IN PrimOk(c.v, c.pr)

\* Unary::evalRator, by node
Unary_evalRator(op, rand, pr) ==
    CASE op = "Car" -> PrimOf(Car_evalRator(rand, pr), pr)
      [] op = "Cdr" -> PrimOf(Cdr_evalRator(rand, pr), pr)
      [] op = "Not" -> PrimOk(Not_evalRator(rand), pr)
      [] op = "IsBoolean" -> PrimOk(BooleanV(rand.t = "V_BOOL"), pr)
      [] op = "IsFixnum" -> PrimOk(BooleanV(rand.t = "V_INT"), pr)
      [] op = "IsNull" -> PrimOk(BooleanV(rand.t = "V_NULL"), pr)
      [] op = "IsPair" -> PrimOk(BooleanV(rand.t = "V_PAIR"), pr)
      [] op = "IsProcedure" -> PrimOk(BooleanV(rand.t = "V_PROC"), pr)
      [] op = "IsSymbol" -> PrimOk(BooleanV(rand.t = "V_SYM"), pr)
      [] op = "IsString" -> PrimOk(BooleanV(rand.t = "V_STRING"), pr)
      [] op = "IsList" -> PrimOf(IsList_evalRator(rand, pr), pr)
      [] op = "Display" -> PrimOk(VoidV, pr)

\* Binary::evalRator, by node
Binary_evalRator(op, rand1, rand2, pr) ==
    CASE op = "Modulo" -> PrimOf(Modulo_evalRator(rand1, rand2), pr)
      [] op = "Expt" -> PrimOf(Expt_evalRator(rand1, rand2), pr)
      [] op = "IsEq" -> PrimOk(IsEq_evalRator(rand1, rand2), pr)
      [] op = "Cons" -> Cons_evalRator(rand1, rand2, pr)
      [] op = "SetCar" -> SetCar_evalRator(rand1, rand2, pr)
      [] op = "SetCdr" -> SetCdr_evalRator(rand1, rand2, pr)
      [] OTHER -> PrimOf(Compare_evalRator(op, rand1, rand2), pr)

\* Variadic::evalRator, by node
Variadic_evalRator(op, args, pr) ==
    CASE op = "PlusVar" -> PrimOf(PlusVar_evalRator(args), pr)
      [] op = "MinusVar" -> PrimOf(MinusVar_evalRator(args), pr)
      [] op = "MultVar" -> PrimOf(MultVar_evalRator(args), pr)
      [] op = "DivVar" -> PrimOf(DivVar_evalRator(args), pr)
      [] op = "ListFunc" ->
            LET l == ListFunc_evalRator(args, pr) IN PrimOk(l.v, l.pr)
      [] OTHER -> PrimOf(CompareVar_evalRator(op, args), pr)

\* convertSyntaxToValue / convertSyntaxListToValue (Quote::eval)
RECURSIVE convertSyntaxToValue(_, _)
RECURSIVE convertSyntaxListToValue(_, _, _, _)

convertSyntaxListToValue(stxs, i, result, pr) ==
    IF i < 1 THEN [v |-> result, pr |-> pr]
    ELSE LET element_value == convertSyntaxToValue(stxs[i], pr)
             cell == PairV(element_value.v, result, element_value.pr)
         IN  convertSyntaxListToValue(stxs, i - 1, cell.v, cell.pr)

convertSyntaxToValue(stx, pr) ==
    CASE stx.k = "Number" -> [v |-> IntegerV(stx.n), pr |-> pr]
      [] stx.k = "RationalSyntax" -> [v |-> RationalV(stx.n, stx.d), pr |-> pr]
      [] stx.k = "TrueSyntax" -> [v |-> BooleanV(TRUE), pr |-> pr]
      [] stx.k = "FalseSyntax" -> [v |-> BooleanV(FALSE), pr |-> pr]
      [] stx.k = "SymbolSyntax" -> [v |-> SymbolV(stx.s), pr |-> pr]
      [] stx.k = "StringSyntax" -> [v |-> StringV(stx.s), pr |-> pr]
      [] stx.k = "List" ->
            convertSyntaxListToValue(stx.stxs, Len(stx.stxs), NullV, pr)

(***************************************************************************)
(* The evaluator.  eval(ex, e, h) evaluates Expr ex with the Assoc         *)
(* reference e in heap h = [fr |-> frames, pr |-> pair cells] and returns  *)
(*   [k |-> "ok" | "RuntimeError" | "diverges", v, e, h]                   *)
(* where e is what the caller's reference holds afterwards and h the heap  *)
(* afterwards.  Both are returned for a throw as well: what was allocated  *)
(* or assigned before the throw stays.                                     *)
(***************************************************************************)
Ok(v, e, h) == [k |-> "ok", v |-> v, e |-> e, h |-> h]
Throw(e, h) == [k |-> "RuntimeError", v |-> NullPtr, e |-> e, h |-> h]
Heap(fr, pr) == [fr |-> fr, pr |-> pr]
\* the outcome of a primitive operator, as the outcome of the node
OfPrim(p, e, h) == [k |-> p.k, v |-> p.v, e |-> e, h |-> Heap(h.fr, p.pr)]

IsFalse(v) == v.t = "V_BOOL" /\ ~v.b

\* static primitive_map of Var::eval: the node and the parameter names the
\* Procedure of each primitive is built from
Parm == Var("parm")
Parm1 == Var("parm1")
Parm2 == Var("parm2")
PrimUnary(op) == [body |-> Unary(op, Parm), params |-> <<"parm">>]
PrimBinary(op) ==
    [body |-> Binary(op, Parm1, Parm2), params |-> <<"parm1", "parm2">>]
PrimVariadic(op) == [body |-> Variadic(op, <<>>), params |-> <<>>]

primitive_map ==
    ("E_VOID" :> [body |-> MakeVoid, params |-> <<>>]) @@
    ("E_EXIT" :> [body |-> Exit, params |-> <<>>]) @@
    ("E_BOOLQ" :> PrimUnary("IsBoolean")) @@ ("E_INTQ" :> PrimUnary("IsFixnum")) @@
    ("E_NULLQ" :> PrimUnary("IsNull")) @@ ("E_PAIRQ" :> PrimUnary("IsPair")) @@
    ("E_PROCQ" :> PrimUnary("IsProcedure")) @@
    ("E_SYMBOLQ" :> PrimUnary("IsSymbol")) @@
    ("E_STRINGQ" :> PrimUnary("IsString")) @@ ("E_LISTQ" :> PrimUnary("IsList")) @@
    ("E_DISPLAY" :> PrimUnary("Display")) @@
    ("E_PLUS" :> PrimVariadic("PlusVar")) @@ ("E_MINUS" :> PrimVariadic("MinusVar")) @@
    ("E_MUL" :> PrimVariadic("MultVar")) @@ ("E_DIV" :> PrimVariadic("DivVar")) @@
    ("E_MODULO" :> PrimBinary("Modulo")) @@ ("E_EXPT" :> PrimBinary("Expt")) @@
    ("E_EQQ" :> PrimBinary("IsEq")) @@
    ("E_LT" :> PrimVariadic("LessVar")) @@ ("E_LE" :> PrimVariadic("LessEqVar")) @@
    ("E_EQ" :> PrimVariadic("EqualVar")) @@
    ("E_GE" :> PrimVariadic("GreaterEqVar")) @@
    ("E_GT" :> PrimVariadic("GreaterVar")) @@
    ("E_CONS" :> PrimBinary("Cons")) @@ ("E_CAR" :> PrimUnary("Car")) @@
    ("E_CDR" :> PrimUnary("Cdr")) @@ ("E_LIST" :> PrimVariadic("ListFunc")) @@
    ("E_SETCAR" :> PrimBinary("SetCar")) @@ ("E_SETCDR" :> PrimBinary("SetCdr")) @@
    ("E_NOT" :> PrimUnary("Not")) @@
    ("E_AND" :> [body |-> AndVar(<<>>), params |-> <<>>]) @@
    ("E_OR" :> [body |-> OrVar(<<>>), params |-> <<>>])

RECURSIVE eval(_, _, _)

\* Var::eval: the primitive table is consulted before the environment
Var_eval(x, e, h) ==
    IF x \in DOMAIN primitives /\ primitives[x] \in DOMAIN primitive_map
    THEN LET it == primitive_map[primitives[x]]
         IN  Ok(ProcedureV(it.params, it.body, e), e, h)
    ELSE IF e = 0 THEN Throw(e, h)
    ELSE LET matched_value == find(x, e, h.fr)
         IN  IF matched_value # NullPtr THEN Ok(matched_value, e, h)
             ELSE Throw(e, h)

\* for (auto &expr : es) args.push_back(expr->eval(e)), from index i on
RECURSIVE evalEach(_, _, _, _, _)
evalEach(es, i, args, e, h) ==
    IF i > Len(es) THEN [k |-> "ok", vs |-> args, e |-> e, h |-> h]
    ELSE LET r == eval(es[i], e, h)
         IN  IF r.k # "ok" THEN [k |-> r.k, vs |-> args, e |-> r.e, h |-> r.h]
             ELSE evalEach(es, i + 1, Append(args, r.v), r.e, r.h)

\* Unary::eval
Unary_eval(ex, e, h) ==
    LET r == eval(ex.rand, e, h)
    IN  IF r.k # "ok" THEN r
        ELSE OfPrim(Unary_evalRator(ex.op, r.v, r.h.pr), r.e, r.h)

\* Binary::eval: evalRator(rand1->eval(e), rand2->eval(e)); the order of the
\* two evaluations is the compiler's (argOrder)
Binary_eval(ex, e, h) ==
    LET first == IF argOrder = "left-to-right" THEN ex.rand1 ELSE ex.rand2
        second == IF argOrder = "left-to-right" THEN ex.rand2 ELSE ex.rand1
        ra == eval(first, e, h)
        rb == eval(second, ra.e, ra.h)
        v1 == IF argOrder = "left-to-right" THEN ra.v ELSE rb.v
        v2 == IF argOrder = "left-to-right" THEN rb.v ELSE ra.v
    IN  IF ra.k # "ok" THEN ra
        ELSE IF rb.k # "ok" THEN rb
        ELSE OfPrim(Binary_evalRator(ex.op, v1, v2, rb.h.pr), rb.e, rb.h)

\* Variadic::eval
Variadic_eval(ex, e, h) ==
    LET r == evalEach(ex.rands, 1, <<>>, e, h)
    IN  IF r.k # "ok" THEN [k |-> r.k, v |-> NullPtr, e |-> r.e, h |-> r.h]
        ELSE OfPrim(Variadic_evalRator(ex.op, r.vs, r.h.pr), r.e, r.h)

\* Begin::eval: every expression in order with the same reference e
Begin_eval(ex, e, h) ==
    IF ex.es = <<>> THEN Ok(VoidV, e, h)
    ELSE LET r == evalEach(ex.es, 1, <<>>, e, h)
         IN  IF r.k # "ok" THEN [k |-> r.k, v |-> NullPtr, e |-> r.e, h |-> r.h]
             ELSE Ok(r.vs[Len(r.vs)], r.e, r.h)

\* Quote::eval
Quote_eval(ex, e, h) ==
    LET c == convertSyntaxToValue(ex.stx, h.pr) IN Ok(c.v, e, Heap(h.fr, c.pr))

\* and without the early return: every operand is evaluated
AndVar_noShortCircuit(rands, i, e, h) ==
    LET r == evalEach(rands, i, <<>>, e, h)
    IN  IF r.k # "ok" THEN [k |-> r.k, v |-> NullPtr, e |-> r.e, h |-> r.h]
        ELSE IF \E j \in 1..Len(r.vs) : IsFalse(r.vs[j])
        THEN Ok(BooleanV(FALSE), r.e, r.h)
        ELSE Ok(r.vs[Len(r.vs)], r.e, r.h)

\* AndVar::eval: the loop over rands, then return rands.back()->eval(e)
RECURSIVE AndVar_loop(_, _, _, _)
AndVar_loop(rands, i, e, h) ==
    IF i > Len(rands) THEN eval(rands[Len(rands)], e, h)
    ELSE LET result == eval(rands[i], e, h)
         IN  IF result.k # "ok" THEN result
             ELSE IF IsFalse(result.v) THEN Ok(BooleanV(FALSE), result.e, result.h)
             ELSE AndVar_loop(rands, i + 1, result.e, result.h)

AndVar_eval(ex, e, h) ==
    IF ex.rands = <<>> THEN Ok(BooleanV(TRUE), e, h)
    ELSE AndVar_loop(ex.rands, 1, e, h)

\* OrVar::eval
RECURSIVE OrVar_loop(_, _, _, _)
OrVar_loop(rands, i, e, h) ==
    IF i > Len(rands) THEN Ok(BooleanV(FALSE), e, h)
    ELSE LET result == eval(rands[i], e, h)
         IN  IF result.k # "ok" THEN result
             ELSE IF ~IsFalse(result.v) THEN result
             ELSE OrVar_loop(rands, i + 1, result.e, result.h)

OrVar_eval(ex, e, h) ==
    IF ex.rands = <<>> THEN Ok(BooleanV(FALSE), e, h)
    ELSE OrVar_loop(ex.rands, 1, e, h)

\* If::eval
If_eval(ex, e, h) ==
    LET test_val == eval(ex.cond, e, h)
    IN  IF test_val.k # "ok" THEN test_val
        ELSE IF ~IsFalse(test_val.v) THEN eval(ex.conseq, test_val.e, test_val.h)
        ELSE IF ex.alter # NoExpr THEN eval(ex.alter, test_val.e, test_val.h)
        ELSE Ok(VoidV, test_val.e, test_val.h)

\* Cond::eval: every clause's first expression is evaluated as its test
RECURSIVE Cond_loop(_, _, _, _)
Cond_loop(clauses, i, env, h) ==
    IF i > Len(clauses) THEN Ok(VoidV, env, h)
    ELSE IF clauses[i] = <<>> THEN Cond_loop(clauses, i + 1, env, h)
    ELSE LET clause == clauses[i]
             test == eval(clause[1], env, h)
         IN  IF test.k # "ok" THEN test
             ELSE IF IsFalse(test.v) THEN Cond_loop(clauses, i + 1, test.e, test.h)
             ELSE IF Len(clause) = 1 THEN test
             ELSE LET r == evalEach(clause, 2, <<>>, test.e, test.h)
                  IN  IF r.k # "ok"
                      THEN [k |-> r.k, v |-> NullPtr, e |-> r.e, h |-> r.h]
                      ELSE Ok(r.vs[Len(r.vs)], r.e, r.h)

Cond_eval(ex, env, h) == Cond_loop(ex.clauses, 1, env, h)

\* Lambda::eval: the closure holds the Assoc the reference has now
Lambda_eval(ex, env, h) == Ok(ProcedureV(ex.params, ex.body, env), env, h)

\* param_env = extend(parameters[i], args[i], param_env), i ascending
RECURSIVE extendAll(_, _, _, _, _)
extendAll(names, vals, i, env, fr) ==
    IF i > Len(names) THEN [env |-> env, fr |-> fr]
    ELSE extendAll(names, vals, i + 1, Len(fr) + 1,
                   extend(names[i], vals[i], env, fr))

\* a call that hands the body's environment back to the caller
Apply_eval_leaking(ex, e, h) ==
    LET proc_val == eval(ex.rator, e, h)
        clos == proc_val.v
        args == evalEach(ex.rands, 1, <<>>, proc_val.e, proc_val.h)
        param == extendAll(clos.parameters, args.vs, 1, clos.env, args.h.fr)
        body == eval(clos.e, param.env, Heap(param.fr, args.h.pr))
    IN  IF proc_val.k # "ok" THEN proc_val
        ELSE IF clos.t # "V_PROC" THEN Throw(proc_val.e, proc_val.h)
        ELSE IF Len(clos.parameters) # Len(ex.rands)
        THEN Throw(proc_val.e, proc_val.h)
        ELSE IF args.k # "ok"
        THEN [k |-> args.k, v |-> NullPtr, e |-> args.e, h |-> args.h]
        ELSE body

\* the body evaluated in the caller's environment (dynamic scoping)
Apply_eval_dynamic(ex, e, h) ==
    LET proc_val == eval(ex.rator, e, h)
        clos == proc_val.v
        args == evalEach(ex.rands, 1, <<>>, proc_val.e, proc_val.h)
        param == extendAll(clos.parameters, args.vs, 1, args.e, args.h.fr)
        body == eval(clos.e, param.env, Heap(param.fr, args.h.pr))
    IN  IF proc_val.k # "ok" THEN proc_val
        ELSE IF clos.t # "V_PROC" THEN Throw(proc_val.e, proc_val.h)
        ELSE IF Len(clos.parameters) # Len(ex.rands)
        THEN Throw(proc_val.e, proc_val.h)
        ELSE IF args.k # "ok"
        THEN [k |-> args.k, v |-> NullPtr, e |-> args.e, h |-> args.h]
        \* param_env is a local: the caller's reference stays args.e
        ELSE [body EXCEPT !.e = args.e]

\* Apply::eval
Apply_eval(ex, e, h) ==
    LET proc_val == eval(ex.rator, e, h)
        clos == proc_val.v
        args == evalEach(ex.rands, 1, <<>>, proc_val.e, proc_val.h)
        param == extendAll(clos.parameters, args.vs, 1, clos.env, args.h.fr)
        body == eval(clos.e, param.env, Heap(param.fr, args.h.pr))
    IN  IF proc_val.k # "ok" THEN proc_val
        ELSE IF clos.t # "V_PROC" THEN Throw(proc_val.e, proc_val.h)
        ELSE IF Len(clos.parameters) # Len(ex.rands)
        THEN Throw(proc_val.e, proc_val.h)
        ELSE IF args.k # "ok"
        THEN [k |-> args.k, v |-> NullPtr, e |-> args.e, h |-> args.h]
        \* param_env is a local: the caller's reference stays args.e
        ELSE [body EXCEPT !.e = args.e]

\* define that refuses the reserved words and the primitive names
Define_eval_rejecting(ex, env, h) ==
    IF ex.var \in DOMAIN reserved_words \cup DOMAIN primitives THEN Throw(env, h)
    ELSE LET env1 == Len(h.fr) + 1
             h1 == Heap(extend(ex.var, VoidV, env, h.fr), h.pr)
             value == eval(ex.body, env1, h1)
         IN  IF value.k # "ok" THEN value
             ELSE Ok(VoidV, value.e,
                     Heap(modify(ex.var, value.v, value.e, value.h.fr), value.h.pr))

\* Define::eval: env = extend(var, VoidV(), env) assigns through the
\* reference; the value is evaluated with it and written with modify
Define_eval(ex, env, h) ==
    LET env1 == Len(h.fr) + 1
        h1 == Heap(extend(ex.var, VoidV, env, h.fr), h.pr)
        value == eval(ex.body, env1, h1)
    IN  IF value.k # "ok" THEN value
        ELSE Ok(VoidV, value.e,
                Heap(modify(ex.var, value.v, value.e, value.h.fr), value.h.pr))

\* let whose initializers are evaluated in the environment built so far (let*)
RECURSIVE Let_loop_sequential(_, _, _, _, _)
Let_loop_sequential(bind, i, env, new_env, h) ==
    IF i > Len(bind) THEN [k |-> "ok", e |-> env, new_env |-> new_env, h |-> h]
    ELSE LET val == eval(bind[i].ex, new_env, h)
         IN  IF val.k # "ok"
             THEN [k |-> val.k, e |-> env, new_env |-> new_env, h |-> val.h]
             ELSE Let_loop_sequential(bind, i + 1, env, Len(val.h.fr) + 1,
                                      Heap(extend(bind[i].var, val.v, new_env, val.h.fr),
                                           val.h.pr))

\* Let::eval: each initializer with the reference env, new_env built on
\* the Assoc env held at entry
RECURSIVE Let_loop(_, _, _, _, _)
Let_loop(bind, i, env, new_env, h) ==
    IF i > Len(bind) THEN [k |-> "ok", e |-> env, new_env |-> new_env, h |-> h]
    ELSE LET val == eval(bind[i].ex, env, h)
         IN  IF val.k # "ok"
             THEN [k |-> val.k, e |-> val.e, new_env |-> new_env, h |-> val.h]
             ELSE Let_loop(bind, i + 1, val.e, Len(val.h.fr) + 1,
                           Heap(extend(bind[i].var, val.v, new_env, val.h.fr),
                                val.h.pr))

Let_eval(ex, env, h) ==
    LET b == Let_loop(ex.bind, 1, env, env, h)
        body == eval(ex.body, b.new_env, b.h)
    IN  IF b.k # "ok" THEN [k |-> b.k, v |-> NullPtr, e |-> b.e, h |-> b.h]
        ELSE [body EXCEPT !.e = b.e]

\* Letrec::eval: placeholders first, then each initializer with the
\* reference new_env, written with modify
RECURSIVE Letrec_loop(_, _, _, _)
Letrec_loop(bind, i, new_env, h) ==
    IF i > Len(bind) THEN [k |-> "ok", new_env |-> new_env, h |-> h]
    ELSE LET val == eval(bind[i].ex, new_env, h)
         IN  IF val.k # "ok" THEN [k |-> val.k, new_env |-> val.e, h |-> val.h]
             ELSE Letrec_loop(bind, i + 1, val.e,
                              Heap(modify(bind[i].var, val.v, val.e, val.h.fr),
                                   val.h.pr))

\* letrec without the placeholders: the initializers are evaluated as let's
Letrec_eval_asLet(ex, env, h) == Let_eval(ex, env, h)

Letrec_eval(ex, env, h) ==
    LET names == [i \in 1..Len(ex.bind) |-> ex.bind[i].var]
        holes == [i \in 1..Len(ex.bind) |-> VoidV]
        pre == extendAll(names, holes, 1, env, h.fr)
        b == Letrec_loop(ex.bind, 1, pre.env, Heap(pre.fr, h.pr))
        body == eval(ex.body, b.new_env, b.h)
    IN  IF b.k # "ok" THEN [k |-> b.k, v |-> NullPtr, e |-> env, h |-> b.h]
        ELSE [body EXCEPT !.e = env]

\* set! that rebinds the name in a new frame in front of env
Set_eval_rebinding(ex, env, h) ==
    LET value == eval(ex.body, env, h)
    IN  IF value.k # "ok" THEN value
        ELSE IF find(ex.var, value.e, value.h.fr) = NullPtr
        THEN Throw(value.e, value.h)
        ELSE Ok(VoidV, Len(value.h.fr) + 1,
                Heap(extend(ex.var, value.v, value.e, value.h.fr), value.h.pr))

\* Set::eval: the first frame from env that binds var is overwritten
Set_eval(ex, env, h) ==
    LET value == eval(ex.body, env, h)
    IN  IF value.k # "ok" THEN value
        ELSE IF find(ex.var, value.e, value.h.fr) = NullPtr
        THEN Throw(value.e, value.h)
        ELSE Ok(VoidV, value.e,
                Heap(modify(ex.var, value.v, value.e, value.h.fr), value.h.pr))

eval(ex, e, h) ==
    CASE ex.e = "Fixnum" -> Ok(IntegerV(ex.n), e, h)
      [] ex.e = "RationalNum" -> Ok(RationalV(ex.n, ex.d), e, h)
      [] ex.e = "StringExpr" -> Ok(StringV(ex.s), e, h)
      [] ex.e = "True" -> Ok(BooleanV(TRUE), e, h)
      [] ex.e = "False" -> Ok(BooleanV(FALSE), e, h)
      [] ex.e = "MakeVoid" -> Ok(VoidV, e, h)
      [] ex.e = "Exit" -> Ok(TerminateV, e, h)
      [] ex.e = "Var" -> Var_eval(ex.x, e, h)
      [] ex.e = "Quote" -> Quote_eval(ex, e, h)
      [] ex.e = "Unary" -> Unary_eval(ex, e, h)
      [] ex.e = "Binary" -> Binary_eval(ex, e, h)
      [] ex.e = "Variadic" -> Variadic_eval(ex, e, h)
      [] ex.e = "AndVar" -> AndVar_eval(ex, e, h)
      [] ex.e = "OrVar" -> OrVar_eval(ex, e, h)
      [] ex.e = "Begin" -> Begin_eval(ex, e, h)
      [] ex.e = "If" -> If_eval(ex, e, h)
      [] ex.e = "Cond" -> Cond_eval(ex, e, h)
      [] ex.e = "Lambda" -> Lambda_eval(ex, e, h)
      [] ex.e = "Apply" -> Apply_eval(ex, e, h)
      [] ex.e = "Define" -> Define_eval(ex, e, h)
      [] ex.e = "Let" -> Let_eval(ex, e, h)
      [] ex.e = "Letrec" -> Letrec_eval(ex, e, h)
      [] ex.e = "Set" -> Set_eval(ex, e, h)

(***************************************************************************)
(* main.cpp: the output decision and the read-eval-print loop.             *)
(***************************************************************************)
RECURSIVE isExplicitVoidCall(_)
isExplicitVoidCall(expr) ==
    CASE expr.e = "MakeVoid" -> TRUE
      [] expr.e = "Apply" -> expr.rator.e = "Var" /\ expr.rator.x = "void"
      [] expr.e = "Begin" ->
            expr.es # <<>> /\ isExplicitVoidCall(expr.es[Len(expr.es)])
      [] expr.e = "If" ->
            isExplicitVoidCall(expr.conseq) \/ isExplicitVoidCall(expr.alter)
      [] expr.e = "Cond" ->
            \E i \in 1..Len(expr.clauses) :
                /\ Len(expr.clauses[i]) > 1
                /\ isExplicitVoidCall(expr.clauses[i][Len(expr.clauses[i])])
      [] OTHER -> FALSE

shouldOutputValue(expr, val) ==
    IF isExplicitVoidCall(expr) THEN TRUE
    ELSE IF val.t = "V_VOID" THEN FALSE
    ELSE IF val.t = "V_TERMINATE" THEN FALSE
    ELSE IF expr.e \in {"Define", "Set"} THEN FALSE
    ELSE TRUE

\* What one pass through the try block leaves: the outcome k, the value val
\* and whether val->show ran.
Outcome(p, r) ==
    [k |-> r.k, v |-> r.v,
     shown |-> r.k = "ok" /\ r.v.t # "V_TERMINATE" /\ shouldOutputValue(p.ex, r.v)]

\* a parser that pre-binds the name of a define form before it parses it
Syntax_parse_prebinding(stx, env, fr) ==
    IF IsListSyntax(stx) /\ Len(stx.stxs) >= 2 /\ stx.stxs[1] = Sym("define")
          /\ IsSymbolSyntax(stx.stxs[2])
    THEN [p |-> parse(stx, env, fr), env |-> Len(fr) + 1,
          fr |-> extend(stx.stxs[2].s, VoidV, env, fr)]
    ELSE [p |-> parse(stx, env, fr), env |-> env, fr |-> fr]

\* stx->parse(env) with env an Assoc &: the expression (or the RuntimeError)
\* and the environment the reference holds after the call.  No parse method
\* assigns env or calls extend or modify; List::parse only calls find(op, env).
Syntax_parse(stx, env, fr) == [p |-> parse(stx, env, fr), env |-> env, fr |-> fr]

\* One iteration of while (1): read a form, parse it and evaluate it with the
\* reference global_env; a RuntimeError of either is caught and reported.
REPL ==
    /\ loop = "reading"
    /\ pos < Len(session)
    /\ LET stx == session[pos + 1]
           sp == Syntax_parse(stx, global_env, frames)
           p == sp.p
           h == Heap(sp.fr, pairs)
           r == IF p.ok THEN eval(p.ex, sp.env, h) ELSE Throw(sp.env, h)
       IN  /\ pos' = pos + 1
           /\ exprs' = Append(exprs, p)
           /\ res' = Append(res, Outcome(p, r))
           /\ global_env' = r.e
           /\ frames' = r.h.fr
           /\ pairs' = r.h.pr
           /\ loop' = IF r.k = "diverges" THEN "hung"
                      ELSE IF r.k = "ok" /\ r.v.t = "V_TERMINATE" THEN "exited"
                      ELSE "reading"
    /\ UNCHANGED <<argOrder, session, il_pc, il_arg, il_cur, il_res>>

(***************************************************************************)
(* Standard input.  A session is the sequence of forms the reader hands    *)
(* to the loop; the sessions below are the programs the model runs.        *)
(***************************************************************************)
Form(head, args) == L(<<Sym(head)>> \o args)
Ints == 0..MaxInt
IntLits == {Num(n) : n \in Ints}
SeqsUpTo(S, n) == UNION {[1..m -> S] : m \in 0..n}

\* names a program may bind: an ordinary one, primitives, a reserved word
PlainNames == {"y"}
PrimitiveNames == {"car", "+"}
ReservedNames == {"if"}
BindableNames == PlainNames \cup PrimitiveNames \cup ReservedNames

\* (define x k) then x
DefineThenRead(x, k) == <<Form("define", <<Sym(x), Num(k)>>), Sym(x)>>
\* (let ((x k)) x)
LetThenRead(x, k) ==
    <<Form("let", <<L(<<L(<<Sym(x), Num(k)>>)>>), Sym(x)>>)>>
\* ((lambda (a x) x) 0 k)
ParamThenRead(x, k) ==
    <<L(<<Form("lambda", <<L(<<Sym("a"), Sym(x)>>), Sym(x)>>), Num(0), Num(k)>>)>>

ShadowSessions ==
    {DefineThenRead(x, k) : x \in BindableNames, k \in Ints}
    \cup {LetThenRead(x, k) : x \in BindableNames, k \in Ints}
    \cup {ParamThenRead(x, k) : x \in BindableNames, k \in Ints}

\* (lambda (p ...) (head 1 2)) for a parameter list ps and a head among them
LambdaForm(ps, head) ==
    Form("lambda", <<L([i \in 1..Len(ps) |-> Sym(ps[i])]),
                     Form(head, <<Num(1), Num(2)>>)>>)
ParamLists == {ps \in SeqsUpTo(BindableNames, 2) : ps # <<>>}
LambdaSessions ==
    UNION {{<<LambdaForm(ps, ps[i])>> : i \in 1..Len(ps)} : ps \in ParamLists}

\* (define (f) (g)), (define (g) k), (f)
ForwardSession(k) ==
    <<Form("define", <<Form("f", <<>>), Form("g", <<>>)>>),
      Form("define", <<Form("g", <<>>), Num(k)>>),
      Form("f", <<>>)>>
ForwardSessions == {ForwardSession(k) : k \in Ints}

\* ((lambda () (define (f) (g)) (define (g) k) (f)))
InternalDefineSession(k) ==
    <<L(<<Form("lambda", <<L(<<>>)>> \o ForwardSession(k))>>)>>
\* ((lambda () (define (g) k) (define (f) (g)) (f))): the callee defined first
InternalBackwardSession(k) ==
    <<L(<<Form("lambda",
               <<L(<<>>),
                 Form("define", <<Form("g", <<>>), Num(k)>>),
                 Form("define", <<Form("f", <<>>), Form("g", <<>>)>>),
                 Form("f", <<>>)>>)>>)>>
InternalDefineSessions ==
    {InternalDefineSession(k) : k \in Ints}
    \cup {InternalBackwardSession(k) : k \in Ints}

\* The operands of the and / or forms.  Operand i is
\*     (begin (set! t (+ (* t 10) i)) v)
\* so that the decimal digits of t list the operands evaluated, in order.
Operands == {FalseS, TrueS} \cup IntLits
Traced(i, v) ==
    Form("begin",
         <<Form("set!", <<Sym("t"),
                          Form("+", <<Form("*", <<Sym("t"), Num(10)>>), Num(i)>>)>>),
           v>>)
LogicForm(op, vs) == Form(op, [i \in 1..Len(vs) |-> Traced(i, vs[i])])
LogicSession(op, vs) ==
    <<Form("define", <<Sym("t"), Num(0)>>), LogicForm(op, vs)>>
LogicSessions ==
    {LogicSession(op, vs) : op \in {"and", "or"}, vs \in SeqsUpTo(Operands, MaxArgs)}

\* (list? (let ((p (cons 1 2))) (set-cdr! p tail) p)) with tail one of p, ()
CycleForm(tail) ==
    Form("list?",
         <<Form("let",
                <<L(<<L(<<Sym("p"), Form("cons", <<Num(1), Num(2)>>)>>)>>),
                  Form("set-cdr!", <<Sym("p"), tail>>),
                  Sym("p")>>)>>)
ListSessions ==
    {<<CycleForm(Sym("p"))>>, <<CycleForm(Form("quote", <<L(<<>>)>>))>>,
     <<CycleForm(Num(0))>>}

\* (cond (#f 1) (else k)) and (cond (#f 1)), (cond (#t k))
CondElse(k) == Form("cond", <<L(<<FalseS, Num(1)>>), L(<<Sym("else"), Num(k)>>)>>)
CondSessions ==
    {<<CondElse(k)>> : k \in Ints}
    \cup {<<Form("cond", <<L(<<FalseS, Num(1)>>)>>)>>}
    \cup {<<Form("cond", <<L(<<TrueS, Num(k)>>)>>)>> : k \in Ints}
    \cup {<<Form("define", <<Sym("else"), TrueS>>), CondElse(k)>> : k \in Ints}

\* (op a ...) and then ((lambda (f) (f a ...)) op)
VariadicNames == {"+", "-", "*", "/", "<", "<=", "=", ">=", ">", "list"}
FixedNames == {"modulo", "expt", "cons", "not", "number?", "null?", "void"}
Direct(op, args) == Form(op, args)
ByName(op, args) ==
    L(<<Form("lambda", <<L(<<Sym("f")>>), Form("f", args)>>), Sym(op)>>)
PrimitiveSessions ==
    {<<Direct(op, args), ByName(op, args)>> :
        op \in VariadicNames \cup FixedNames, args \in SeqsUpTo(IntLits, MaxArgs)}

\* (quote d) for data that are, and that are not, well-formed expressions
QuotedData ==
    {L(<<Sym("if")>>), L(<<Sym("car")>>), L(<<Sym("lambda")>>),
     L(<<Sym("a"), Sym("b")>>), L(<<Sym("car"), Sym("x")>>), Sym("x"), L(<<>>)}
    \cup IntLits
QuoteSessions == {<<Form("quote", <<d>>)>> : d \in QuotedData}

ExitSessions == {<<Form("exit", <<>>), Num(0)>>}

\* (define y (car k)) then y: the value expression of the define throws
FailedDefine(x, k) == Form("define", <<Sym(x), Form("car", <<Num(k)>>)>>)
FailedDefineFresh(k) == <<FailedDefine("y", k), Sym("y")>>
\* (define y k) then (define y (car 0)) then y
FailedDefineBound(k) ==
    <<Form("define", <<Sym("y"), Num(k)>>), FailedDefine("y", 0), Sym("y")>>
FailedDefineSessions ==
    {FailedDefineFresh(k) : k \in Ints} \cup {FailedDefineBound(k) : k \in Ints}

\* (define x k) for x a reserved word, a primitive name or an ordinary name
DefinableNames == DOMAIN reserved_words \cup PrimitiveNames \cup PlainNames
DefineName(x, k) == <<Form("define", <<Sym(x), Num(k)>>)>>
DefineNameSessions == {DefineName(x, k) : x \in DefinableNames, k \in Ints}

\* (define x a), (define (f) x), ((lambda (x) (f)) b): f is called where x is b
LexicalTop(a, b) ==
    <<Form("define", <<Sym("x"), Num(a)>>),
      Form("define", <<Form("f", <<>>), Sym("x")>>),
      L(<<Form("lambda", <<L(<<Sym("x")>>), Form("f", <<>>)>>), Num(b)>>)>>
\* (let ((x a)) (let ((f (lambda () x))) (let ((x b)) (f))))
LexicalLet(a, b) ==
    <<Form("let",
           <<L(<<L(<<Sym("x"), Num(a)>>)>>),
             Form("let",
                  <<L(<<L(<<Sym("f"), Form("lambda", <<L(<<>>), Sym("x")>>)>>)>>),
                    Form("let", <<L(<<L(<<Sym("x"), Num(b)>>)>>),
                                  Form("f", <<>>)>>)>>)>>)>>
\* (((lambda (a) (lambda (b) a)) a) b): the inner body reads the outer parameter
LexicalCurried(a, b) ==
    <<L(<<L(<<Form("lambda", <<L(<<Sym("a")>>),
                                Form("lambda", <<L(<<Sym("b")>>), Sym("a")>>)>>),
              Num(a)>>),
          Num(b)>>)>>
LexicalSessions ==
    {LexicalTop(a, b) : a \in Ints, b \in Ints}
    \cup {LexicalLet(a, b) : a \in Ints, b \in Ints}
    \cup {LexicalCurried(a, b) : a \in Ints, b \in Ints}

\* let forms: Bind(x, e) is the binding (x e)
Bind(x, e) == L(<<Sym(x), e>>)
LetForm(binds, body) == Form("let", <<L(binds), body>>)
\* (let ((x a)) (let ((x b) (y x)) y))
LetOuter(a, b) ==
    <<LetForm(<<Bind("x", Num(a))>>,
              LetForm(<<Bind("x", Num(b)), Bind("y", Sym("x"))>>, Sym("y")))>>
\* (let ((x b) (y x)) y) where x is not bound outside
LetSibling(b) == <<LetForm(<<Bind("x", Num(b)), Bind("y", Sym("x"))>>, Sym("y"))>>
\* (let ((x a) (y b)) z) for z one of x, y
LetBody(a, b, z) == <<LetForm(<<Bind("x", Num(a)), Bind("y", Num(b))>>, Sym(z))>>
LetSessions ==
    {LetOuter(a, b) : a \in Ints, b \in Ints}
    \cup {LetSibling(b) : b \in Ints}
    \cup {LetBody(a, b, z) : a \in Ints, b \in Ints, z \in {"x", "y"}}

\* letrec forms
LetrecForm(binds, body) == Form("letrec", <<L(binds), body>>)
IfForm(c, t, a) == Form("if", <<c, t, a>>)
IsZero(x) == Form("=", <<Sym(x), Num(0)>>)
Pred(x) == Form("-", <<Sym(x), Num(1)>>)
\* (letrec ((fact (lambda (n) (if (= n 0) 1 (* n (fact (- n 1))))))) (fact k))
FactSession(k) ==
    <<LetrecForm(
        <<Bind("fact",
               Form("lambda",
                    <<L(<<Sym("n")>>),
                      IfForm(IsZero("n"), Num(1),
                             Form("*", <<Sym("n"), Form("fact", <<Pred("n")>>)>>))>>))>>,
        Form("fact", <<Num(k)>>))>>
\* (letrec ((even? (lambda (n) (if (= n 0) #t (odd? (- n 1)))))
\*          (odd? (lambda (n) (if (= n 0) #f (even? (- n 1))))))
\*   (even? k))
ParitySession(k) ==
    <<LetrecForm(
        <<Bind("even?",
               Form("lambda",
                    <<L(<<Sym("n")>>),
                      IfForm(IsZero("n"), TrueS, Form("odd?", <<Pred("n")>>))>>)),
          Bind("odd?",
               Form("lambda",
                    <<L(<<Sym("n")>>),
                      IfForm(IsZero("n"), FalseS, Form("even?", <<Pred("n")>>))>>))>>,
        Form("even?", <<Num(k)>>))>>
LetrecSessions ==
    {FactSession(k) : k \in Ints \cup {5}} \cup {ParitySession(k) : k \in Ints}

\* set! forms
SetForm(x, e) == Form("set!", <<Sym(x), e>>)
\* (define n a), (define (put) (set! n b)), (define (get) n), (put), (get), n
SetInClosure(a, b) ==
    <<Form("define", <<Sym("n"), Num(a)>>),
      Form("define", <<Form("put", <<>>), SetForm("n", Num(b))>>),
      Form("define", <<Form("get", <<>>), Sym("n")>>),
      Form("put", <<>>),
      Form("get", <<>>),
      Sym("n")>>
\* (define n a), (define (get) n), (set! n b), (get)
SetAtTop(a, b) ==
    <<Form("define", <<Sym("n"), Num(a)>>),
      Form("define", <<Form("get", <<>>), Sym("n")>>),
      SetForm("n", Num(b)),
      Form("get", <<>>)>>
\* (define n a), ((lambda (n) (set! n b) n) 0), n: the innermost n is written
SetInnermost(a, b) ==
    <<Form("define", <<Sym("n"), Num(a)>>),
      L(<<Form("lambda", <<L(<<Sym("n")>>), SetForm("n", Num(b)), Sym("n")>>),
          Num(0)>>),
      Sym("n")>>
SetSessions ==
    {SetInClosure(a, b) : a \in Ints, b \in Ints}
    \cup {SetAtTop(a, b) : a \in Ints, b \in Ints}
    \cup {SetInnermost(a, b) : a \in Ints, b \in Ints}

\* (define p (cons a b)), (define q p), (op p c), (car p), (cdr p), (car q), (cdr q)
\* for op one of set-car!, set-cdr!
SetField(op, a, b, c) ==
    <<Form("define", <<Sym("p"), Form("cons", <<Num(a), Num(b)>>)>>),
      Form("define", <<Sym("q"), Sym("p")>>),
      Form(op, <<Sym("p"), Num(c)>>),
      Form("car", <<Sym("p")>>),
      Form("cdr", <<Sym("p")>>),
      Form("car", <<Sym("q")>>),
      Form("cdr", <<Sym("q")>>)>>
\* (op a c) and (op (quote ()) c): the first operand is not a pair
SetFieldOfAtom(op, a, c) == <<Form(op, <<Num(a), Num(c)>>)>>
SetFieldOfNull(op, c) == <<Form(op, <<Form("quote", <<L(<<>>)>>), Num(c)>>)>>
PairMutators == {"set-car!", "set-cdr!"}
SetFieldSessions ==
    {SetField(op, a, b, c) : op \in PairMutators, a \in Ints, b \in Ints, c \in Ints}
    \cup {SetFieldOfAtom(op, a, c) : op \in PairMutators, a \in Ints, c \in Ints}
    \cup {SetFieldOfNull(op, c) : op \in PairMutators, c \in Ints}


\* Arithmetic on signed integer literals: (+ a b), (+), (*), (- a), (/ a).
SignedInts == (-MaxInt)..MaxInt
Sum(a, b) == <<Form("+", <<Num(a), Num(b)>>)>>
EmptySum == <<Form("+", <<>>)>>
EmptyProduct == <<Form("*", <<>>)>>
Negation(a) == <<Form("-", <<Num(a)>>)>>
Reciprocal(a) == <<Form("/", <<Num(a)>>)>>
ArithmeticSessions ==
    {Sum(a, b) : a \in SignedInts, b \in SignedInts}
        \cup {EmptySum, EmptyProduct}
        \cup {Negation(a) : a \in SignedInts}
        \cup {Reciprocal(a) : a \in SignedInts}


\* (define y a) (define f (lambda (x) (+ x y))) Z y (f b), where Z divides
\* by zero: (/ 1 0), (/ a 0/1) or (modulo a 0).
ZeroDivisions(a) ==
    {Form("/", <<Num(1), Num(0)>>),
     Form("/", <<Num(a), Rat(0, 1)>>),
     Form("modulo", <<Num(a), Num(0)>>)}
AroundZeroDivision(a, b, z) ==
    <<Form("define", <<Sym("y"), Num(a)>>),
      Form("define", <<Sym("f"),
                       Form("lambda", <<L(<<Sym("x")>>),
                                        Form("+", <<Sym("x"), Sym("y")>>)>>)>>),
      z,
      Sym("y"),
      Form("f", <<Num(b)>>)>>
ZeroDivisionSessions ==
    UNION {{AroundZeroDivision(a, b, z) : z \in ZeroDivisions(a)} :
               a \in Ints, b \in Ints}


\* (define y a) (define f (lambda (x) x)) m (f y), where m is a form the
\* parser rejects or a form it accepts.
Malformed ==
    {Form("define", <<Sym("x")>>), Form("define", <<Sym("x"), Num(1), Num(2)>>),
     Form("if", <<Num(1)>>), Form("lambda", <<>>), Form("quote", <<>>),
     Form("let", <<>>), Form("modulo", <<Num(1)>>),
     Form("f", <<Form("if", <<>>)>>)}
Wellformed ==
    {Form("f", <<Num(1)>>), Form("quote", <<Sym("y")>>), Sym("y"),
     Form("lambda", <<L(<<Sym("y")>>), Sym("y")>>),
     Form("let", <<L(<<Bind("y", Num(1))>>), Sym("y")>>)}
AroundParse(a, m) ==
    <<Form("define", <<Sym("y"), Num(a)>>),
      Form("define", <<Sym("f"), Form("lambda", <<L(<<Sym("x")>>), Sym("x")>>)>>),
      m,
      Form("f", <<Sym("y")>>)>>
ParseSessions == {AroundParse(a, m) : a \in Ints, m \in Malformed \cup Wellformed}


\* (define x a) (define (getx) x) (define x b) (getx) x
Redefine(a, b) ==
    <<Form("define", <<Sym("x"), Num(a)>>),
      Form("define", <<Form("getx", <<>>), Sym("x")>>),
      Form("define", <<Sym("x"), Num(b)>>),
      Form("getx", <<>>),
      Sym("x")>>
RedefineSessions == {Redefine(a, b) : a \in Ints, b \in Ints}


\* (quote (d1 ... dn)) over the atoms 1, 2 and the marker symbol "."
Dot == Sym(".")
DottedAtoms == {Num(1), Num(2), Dot}
DottedSessions ==
    {<<Form("quote", <<L(d)>>)>> : d \in SeqsUpTo(DottedAtoms, MaxArgs)}


\* (letrec ((a b) (b k)) a): the initializer of a reads b before b is filled;
\* (define x x): the value expression reads x before x is filled.
LetrecEarlyRead(k) ==
    <<LetrecForm(<<Bind("a", Sym("b")), Bind("b", Num(k))>>, Sym("a"))>>
DefineEarlyRead == <<Form("define", <<Sym("x"), Sym("x")>>), Sym("x")>>
PlaceholderSessions == {LetrecEarlyRead(k) : k \in Ints} \cup {DefineEarlyRead}


\* (+ v ...) and (* v ...) over integer, rational and boolean literals
FoldOperands == {Num(1), Num(2), Rat(1, 2), TrueS}
FoldSessions ==
    {<<Form(op, args)>> : op \in {"+", "*"}, args \in SeqsUpTo(FoldOperands, MaxArgs)}


\* (define t 0) (define f (lambda (x) x)) (rator (set! t k + 1) extra ...) t:
\* a call of f with one argument too many, a call of the non-procedure t,
\* and a call of f with the right number of arguments.
CallWith(rator, k, extra) ==
    <<Form("define", <<Sym("t"), Num(0)>>),
      Form("define", <<Sym("f"), Form("lambda", <<L(<<Sym("x")>>), Sym("x")>>)>>),
      Form(rator, <<SetForm("t", Num(k + 1))>> \o extra),
      Sym("t")>>
ArityMismatch(k) == CallWith("f", k, <<Num(2)>>)
NotAProcedure(k) == CallWith("t", k, <<>>)
ArityMatch(k) == CallWith("f", k, <<>>)
CallSessions ==
    UNION {{ArityMismatch(k), NotAProcedure(k), ArityMatch(k)} : k \in Ints}


\* (op x b) then (< (op x b) 0), for x an integer or the rational 1/2 and b a
\* signed integer
ArithmeticNames == {"+", "-", "*", "/"}
SignOperands == {Num(a) : a \in SignedInts} \cup {Rat(1, 2)}
SignOf(op, x, b) ==
    <<Form(op, <<x, Num(b)>>), Form("<", <<Form(op, <<x, Num(b)>>), Num(0)>>)>>
SignSessions ==
    {SignOf(op, x, b) : op \in ArithmeticNames, x \in SignOperands, b \in SignedInts}


\* (expt b e) around the edges of the int range
ExptBases == {-46341, -3, -2, -1, 0, 1, 2, 3, 46340, 46341, 65536, INT_MAX, INT_MIN}
ExptExponents == {-1, 0, 1, 2, 3, 4, 30, 31, 32}
ExptOf(b, e) == <<Form("expt", <<Num(b), Num(e)>>)>>
ExptSessions == {ExptOf(b, e) : b \in ExptBases, e \in ExptExponents}


\* (define y a) (define f (lambda (x) (define z x) (set! y z) z)) F z x y,
\* where F is a call, a let or a letrec whose body defines z, or one whose
\* argument or initializer wraps a define of z in a begin.
DefinesInBody(b) ==
    {Form("f", <<Num(b)>>),
     Form("let", <<L(<<Bind("x", Num(b))>>),
                   Form("define", <<Sym("z"), Sym("x")>>), Sym("z")>>),
     Form("letrec", <<L(<<Bind("x", Num(b))>>),
                      Form("define", <<Sym("z"), Sym("x")>>), Sym("z")>>)}
DefineInBegin(b) == Form("begin", <<Form("define", <<Sym("z"), Num(b)>>), Sym("z")>>)
DefinesInOperand(b) ==
    {Form("f", <<DefineInBegin(b)>>),
     Form("let", <<L(<<Bind("x", DefineInBegin(b))>>), Sym("x")>>),
     Form("letrec", <<L(<<Bind("x", DefineInBegin(b))>>), Sym("x")>>)}
AroundForm(a, F) ==
    <<Form("define", <<Sym("y"), Num(a)>>),
      Form("define", <<Sym("f"),
                       Form("lambda", <<L(<<Sym("x")>>),
                                        Form("define", <<Sym("z"), Sym("x")>>),
                                        SetForm("y", Sym("z")),
                                        Sym("z")>>)>>),
      F, Sym("z"), Sym("x"), Sym("y")>>
FrameSessions ==
    UNION {{AroundForm(a, F) : F \in DefinesInBody(b) \cup DefinesInOperand(b)} :
               a \in Ints, b \in Ints}


\* (number? v) for operands of every kind of value the forms below produce
NumericOperands == {Num(n) : n \in Ints} \cup {Rat(1, 2), Form("/", <<Num(1), Num(2)>>)}
OtherOperands ==
    {TrueS, FalseS, Str("s"), Form("quote", <<Sym("a")>>), Form("quote", <<L(<<>>)>>),
     Form("cons", <<Num(1), Num(2)>>), Form("void", <<>>),
     Form("lambda", <<L(<<Sym("x")>>), Sym("x")>>), Sym("car")}
IsNumberOf(v) == <<Form("number?", <<v>>)>>
NumberSessions == {IsNumberOf(v) : v \in NumericOperands \cup OtherOperands}

\* programs that exercise single operations at their edges
BehaviourSessions ==
    PlaceholderSessions
        \cup FoldSessions
        \cup CallSessions
        \cup SignSessions
        \cup ExptSessions
        \cup FrameSessions
        \cup NumberSessions

Sessions ==
    ShadowSessions \cup LambdaSessions \cup ForwardSessions
    \cup InternalDefineSessions \cup LogicSessions \cup ListSessions
    \cup CondSessions \cup PrimitiveSessions \cup QuoteSessions \cup ExitSessions
    \cup FailedDefineSessions
    \cup DefineNameSessions
    \cup LexicalSessions
    \cup LetSessions
    \cup LetrecSessions
    \cup SetSessions
    \cup SetFieldSessions
    \cup ArithmeticSessions
    \cup ZeroDivisionSessions
    \cup ParseSessions
    \cup RedefineSessions
    \cup DottedSessions
    \cup BehaviourSessions

(***************************************************************************)
(* The interpreter: REPL() starts with the empty global environment.       *)
(***************************************************************************)
Init ==
    /\ argOrder \in {"left-to-right", "right-to-left"}
    /\ session \in Sessions
    /\ pos = 0
    /\ global_env = empty
    /\ frames = <<>>
    /\ pairs = <<>>
    /\ exprs = <<>>
    /\ res = <<>>
    /\ loop = "reading"
    /\ il_pc = "idle"
    /\ il_arg = NullV
    /\ il_cur = NullV
    /\ il_res = NullV

Next == REPL

Spec == Init /\ [][Next]_vars

(***************************************************************************)
(* The pair primitives step by step: cells are allocated and mutated, and  *)
(* IsList::evalRator runs its while loop one test and one body at a time.  *)
(***************************************************************************)
ListAtoms == {NullV, IntegerV(0)}
CellRefs == {PairRef(p) : p \in 1..Len(pairs)}
CellValues == ListAtoms \cup CellRefs

Cons_step ==
    /\ il_pc = "idle"
    /\ Len(pairs) < MaxCells
    /\ \E rand1 \in CellValues, rand2 \in CellValues :
          pairs' = Cons_evalRator(rand1, rand2, pairs).pr
    /\ UNCHANGED <<argOrder, session, pos, global_env, frames, exprs, res, loop,
                   il_pc, il_arg, il_cur, il_res>>

SetCar_step ==
    /\ il_pc = "idle"
    /\ \E rand1 \in CellRefs, rand2 \in CellValues :
          pairs' = SetCar_evalRator(rand1, rand2, pairs).pr
    /\ UNCHANGED <<argOrder, session, pos, global_env, frames, exprs, res, loop,
                   il_pc, il_arg, il_cur, il_res>>

SetCdr_step ==
    /\ il_pc = "idle"
    /\ \E rand1 \in CellRefs, rand2 \in CellValues :
          pairs' = SetCdr_evalRator(rand1, rand2, pairs).pr
    /\ UNCHANGED <<argOrder, session, pos, global_env, frames, exprs, res, loop,
                   il_pc, il_arg, il_cur, il_res>>

\* Value current = rand;
IsList_enter ==
    /\ il_pc = "idle"
    /\ \E rand \in CellValues :
          /\ il_arg' = rand
          /\ il_cur' = rand
    /\ il_pc' = "test"
    /\ UNCHANGED <<argOrder, session, pos, global_env, frames, pairs, exprs, res,
                   loop, il_res>>

\* while (current->v_type == V_PAIR) ... return BooleanV(current->v_type == V_NULL);
IsList_test ==
    /\ il_pc = "test"
    /\ IF il_cur.t = "V_PAIR"
       THEN /\ il_pc' = "body"
            /\ UNCHANGED il_res
       ELSE /\ il_pc' = "idle"
            /\ il_res' = BooleanV(il_cur.t = "V_NULL")
    /\ UNCHANGED <<argOrder, session, pos, global_env, frames, pairs, exprs, res,
                   loop, il_arg, il_cur>>

\* current = p->cdr;
IsList_body ==
    /\ il_pc = "body"
    /\ il_cur' = pairs[il_cur.p].cdr
    /\ il_pc' = "test"
    /\ UNCHANGED <<argOrder, session, pos, global_env, frames, pairs, exprs, res,
                   loop, il_arg, il_res>>

ListInit ==
    /\ argOrder = "left-to-right"
    /\ session = <<>>
    /\ pos = 0
    /\ global_env = empty
    /\ frames = <<>>
    /\ pairs = <<>>
    /\ exprs = <<>>
    /\ res = <<>>
    /\ loop = "reading"
    /\ il_pc = "idle"
    /\ il_arg = NullV
    /\ il_cur = NullV
    /\ il_res = NullV

ListNext ==
    \/ Cons_step
    \/ SetCar_step
    \/ SetCdr_step
    \/ IsList_enter
    \/ IsList_test
    \/ IsList_body

ListSpec == ListInit /\ [][ListNext]_vars

\* A call of list? that has started keeps running: nothing preempts the loop.
FairListSpec == ListSpec /\ WF_vars(IsList_test) /\ WF_vars(IsList_body)

(***************************************************************************)
(* Properties.                                                             *)
(***************************************************************************)
\* Two values print alike: the same atoms, and pairs whose cars and cdrs do.
RECURSIVE sameValue(_, _, _, _, _)
sameValue(v1, pr1, v2, pr2, depth) ==
    IF v1.t # v2.t THEN FALSE
    ELSE IF v1.t # "V_PAIR" THEN v1 = v2
    ELSE IF depth = 0 THEN FALSE
    ELSE /\ sameValue(pr1[v1.p].car, pr1, pr2[v2.p].car, pr2, depth - 1)
         /\ sameValue(pr1[v1.p].cdr, pr1, pr2[v2.p].cdr, pr2, depth - 1)

\* the value a literal operand evaluates to
Datum(lit) ==
    IF lit.k = "Number" THEN IntegerV(lit.n) ELSE BooleanV(lit.k = "TrueSyntax")
\* the trace left in t when operands 1..n were evaluated once each, in order
RECURSIVE Digits(_)
Digits(n) == IF n = 0 THEN 0 ELSE Digits(n - 1) * 10 + n
Trace == find("t", global_env, frames)
FirstIndex(vs, P(_)) ==
    IF \E i \in 1..Len(vs) : P(vs[i])
    THEN CHOOSE i \in 1..Len(vs) : P(vs[i]) /\ \A j \in 1..(i - 1) : ~P(vs[j])
    ELSE 0
IsFalseLit(lit) == lit = FalseS
\* the operator and the literal operands of a form LogicForm(op, vs)
OperatorOf(form) == form.stxs[1].s
OperandsOf(form) == [i \in 1..(Len(form.stxs) - 1) |-> form.stxs[i + 1].stxs[3]]
IsTrueLit(lit) == lit # FalseS
Finished(n) == pos = n /\ Len(res) = n
Returned(i, v) == res[i].k = "ok" /\ res[i].v = v

\* C1: evaluating Var(x) yields the value x is bound to whenever x is bound,
\* also when x names a primitive: by define, by let and as a lambda parameter.
VarReturnsBinding ==
    /\ \A x \in BindableNames :
          find(x, global_env, frames) # NullPtr =>
             LET r == Var_eval(x, global_env, Heap(frames, pairs))
             IN  r.k = "ok" /\ r.v = find(x, global_env, frames)
    /\ \A x \in PlainNames \cup PrimitiveNames, k \in Ints :
          /\ session = DefineThenRead(x, k) /\ Finished(2) => Returned(2, IntegerV(k))
          /\ session = LetThenRead(x, k) /\ Finished(1) => Returned(1, IntegerV(k))
          /\ session = ParamThenRead(x, k) /\ Finished(1) => Returned(1, IntegerV(k))
VarReadOfShadowedPrimitive ==
    /\ session = DefineThenRead("car", 1)
    /\ Finished(2)
    /\ find("car", global_env, frames) = IntegerV(1)

\* C2: (lambda (p ...) (h 1 2)) with h one of the parameters parses, whatever
\* the parameters are called, to a Lambda whose body is Apply(Var(h), <<1, 2>>).
LambdaParametersShadow ==
    \A ps \in ParamLists : \A i \in 1..Len(ps) :
        session = <<LambdaForm(ps, ps[i])>> /\ Finished(1) =>
            exprs[1] = Parsed(Lambda(ps, Apply(Var(ps[i]), <<Fixnum(1), Fixnum(2)>>)))
LambdaWithReservedParameterParsed ==
    /\ session = <<LambdaForm(<<"if">>, "if")>>
    /\ Finished(1)

\* C3: after (define (f) (g)) and then (define (g) k) at top level, (f) is k.
ForwardReferenceResolves ==
    \A k \in Ints :
        session = ForwardSession(k) /\ Finished(3) => Returned(3, IntegerV(k))
ForwardReferenceCalled ==
    /\ session = ForwardSession(1)
    /\ Finished(3)
    /\ find("g", global_env, frames) # NullPtr

\* C4: in a body that starts with (define (f) (g)) (define (g) k), the call
\* (f) that follows returns k: f sees g although g is defined after it.
InternalDefinesPreBound ==
    \A k \in Ints :
        session = InternalDefineSession(k) /\ Finished(1) => Returned(1, IntegerV(k))
InternalDefinesCalled ==
    /\ session = InternalDefineSession(1)
    /\ Finished(1)

\* C5: an and form none of whose operands is #f evaluates each operand once,
\* in order, and returns the value of the last.
AndEvaluatesEachOnce ==
    session \in LogicSessions /\ Finished(2) =>
        LET vs == OperandsOf(session[2])
        IN  OperatorOf(session[2]) = "and" /\ vs # <<>> /\ FirstIndex(vs, IsFalseLit) = 0 =>
                /\ Returned(2, Datum(vs[Len(vs)]))
                /\ Trace = IntegerV(Digits(Len(vs)))
AndOfTrueOperandsEvaluated ==
    /\ session = LogicSession("and", <<TrueS, Num(1)>>)
    /\ Finished(2)
    /\ Returned(2, IntegerV(1))

\* C6: and returns #f at its first #f operand, or returns its first operand
\* that is not #f; the operands after the deciding one are not evaluated, the
\* ones up to it are evaluated once each in order; (and) is #t and (or) is #f.
ShortCircuit ==
    session \in LogicSessions /\ Finished(2) =>
        LET vs == OperandsOf(session[2])
            op == OperatorOf(session[2])
            d == IF op = "and" THEN FirstIndex(vs, IsFalseLit)
                 ELSE FirstIndex(vs, IsTrueLit)
        IN  /\ vs = <<>> => Returned(2, BooleanV(op = "and")) /\ Trace = IntegerV(0)
            /\ d # 0 =>
                  /\ Returned(2, IF op = "and" THEN BooleanV(FALSE) ELSE Datum(vs[d]))
                  /\ Trace = IntegerV(Digits(d))
ShortCircuitTaken ==
    /\ session = LogicSession("and", <<TrueS, FalseS, TrueS>>)
    /\ Finished(2)
    /\ Returned(2, BooleanV(FALSE))
    /\ Trace = IntegerV(12)

\* C7: a call of list? that has started returns, whatever the cells hold.
IsListTerminates == (il_pc = "test") ~> (il_pc = "idle")
IsListOnCycleEntered ==
    /\ il_pc = "test"
    /\ il_cur.t = "V_PAIR"
    /\ pairs[il_cur.p].cdr = il_cur

\* C8: (cond (#f 1) (else k)) is k where else is not bound.
CondElseSelected ==
    \A k \in Ints :
        session = <<CondElse(k)>> /\ Finished(1) => Returned(1, IntegerV(k))
CondElseReached ==
    /\ session = <<CondElse(2)>>
    /\ Finished(1)

\* C9: whenever (op a ...) returns a value, ((lambda (f) (f a ...)) op)
\* returns a value that prints the same.
PrimitiveByNameAgrees ==
    session \in PrimitiveSessions /\ Finished(2) /\ res[1].k = "ok" =>
        /\ res[2].k = "ok"
        /\ sameValue(res[1].v, pairs, res[2].v, pairs, MaxArgs + 1)
VariadicByNameApplied ==
    /\ session = <<Direct("+", <<Num(1), Num(2)>>), ByName("+", <<Num(1), Num(2)>>)>>
    /\ Finished(2)
    /\ Returned(1, IntegerV(3))

\* C10: (quote d) parses to Quote(d) for every datum d, and evaluates to d.
QuoteCarriesDatum ==
    \A d \in QuotedData :
        session = <<Form("quote", <<d>>)>> /\ Finished(1) =>
            /\ exprs[1] = Parsed(Quote(d))
            /\ res[1].k = "ok"
            /\ LET want == convertSyntaxToValue(d, <<>>)
               IN  sameValue(res[1].v, pairs, want.v, want.pr, MaxArgs + 1)
QuoteOfMalformedExpression ==
    /\ session = <<Form("quote", <<L(<<Sym("if")>>)>>)>>
    /\ Finished(1)

\* C11: a top-level define whose value expression throws leaves no new
\* binding: a name unbound before is still undefined afterwards, and a name
\* bound before still has its previous value.
FailedDefineLeavesNoBinding ==
    \A k \in Ints :
        /\ session = FailedDefineFresh(k) /\ Finished(2) =>
              /\ res[1].k = "RuntimeError"
              /\ res[2].k = "RuntimeError"
              /\ find("y", global_env, frames) = NullPtr
        /\ session = FailedDefineBound(k) /\ Finished(3) =>
              /\ res[2].k = "RuntimeError"
              /\ Returned(3, IntegerV(k))
FailedDefineThenRead ==
    /\ session = FailedDefineFresh(1)
    /\ Finished(2)
    /\ res[1].k = "RuntimeError"

\* C12 (as stated): define of a reserved word or of a primitive name fails
\* with a RuntimeError and adds no binding; define of any other name is Void.
DefineRejectsReservedNames ==
    \A x \in DefinableNames : \A k \in Ints :
        session = DefineName(x, k) /\ Finished(1) =>
            IF x \in DOMAIN reserved_words \cup DOMAIN primitives
            THEN res[1].k = "RuntimeError" /\ find(x, global_env, frames) = NullPtr
            ELSE Returned(1, VoidV)
\* C12 (amended): define rejects no name: for every name, the reserved words
\* and the primitive names included, (define x k) parses to Define(x, k),
\* yields Void and binds x to k; and Define::eval does so in every environment.
DefineAcceptsEveryName ==
    /\ \A x \in DefinableNames : \A k \in Ints :
          session = DefineName(x, k) /\ Finished(1) =>
              /\ exprs[1] = Parsed(Define(x, Fixnum(k)))
              /\ Returned(1, VoidV)
              /\ find(x, global_env, frames) = IntegerV(k)
    /\ \A x \in DefinableNames :
          LET r == Define_eval(Define(x, Fixnum(MaxInt)), global_env, Heap(frames, pairs))
          IN  /\ r.k = "ok" /\ r.v = VoidV
              /\ find(x, r.e, r.h.fr) = IntegerV(MaxInt)
DefineOfReservedNameDone ==
    /\ session = DefineName("if", 1)
    /\ Finished(1)
    /\ find("if", global_env, frames) = IntegerV(1)

\* C13: a free variable of a procedure body is read in the environment that
\* was captured when the lambda was evaluated, extended with the parameters,
\* also when the call site binds the same name to another value.
LexicalScoping ==
    \A a \in Ints : \A b \in Ints :
        /\ session = LexicalTop(a, b) /\ Finished(3) => Returned(3, IntegerV(a))
        /\ session = LexicalLet(a, b) /\ Finished(1) => Returned(1, IntegerV(a))
        /\ session = LexicalCurried(a, b) /\ Finished(1) => Returned(1, IntegerV(a))
CalledWhereNameIsRebound ==
    /\ session = LexicalTop(1, 2)
    /\ Finished(3)
    /\ Returned(3, IntegerV(1))

\* C14: the initializers of a let are evaluated in the environment of the let
\* form, where no sibling binding is visible, and the body sees all bindings:
\* (let ((x a)) (let ((x b) (y x)) y)) is a.
LetInitializersSeeOuterScope ==
    \A a \in Ints : \A b \in Ints :
        /\ session = LetOuter(a, b) /\ Finished(1) => Returned(1, IntegerV(a))
        /\ session = LetSibling(b) /\ Finished(1) => res[1].k = "RuntimeError"
        /\ session = LetBody(a, b, "x") /\ Finished(1) => Returned(1, IntegerV(a))
        /\ session = LetBody(a, b, "y") /\ Finished(1) => Returned(1, IntegerV(b))
LetWithShadowingSibling ==
    /\ session = LetOuter(1, 2)
    /\ Finished(1)
    /\ Returned(1, IntegerV(1))

RECURSIVE Factorial(_)
Factorial(n) == IF n = 0 THEN 1 ELSE n * Factorial(n - 1)

\* C15: a lambda bound by letrec can call itself and the procedures bound
\* beside it, also one bound later in the list: the letrec factorial of k is
\* k! (120 for 5), and even? / odd? defined by each other decide parity.
LetrecBindsRecursively ==
    /\ \A k \in Ints \cup {5} :
          session = FactSession(k) /\ Finished(1) =>
              Returned(1, IntegerV(Factorial(k)))
    /\ \A k \in Ints :
          session = ParitySession(k) /\ Finished(1) =>
              Returned(1, BooleanV(k % 2 = 0))
LetrecFactorialOfFive ==
    /\ session = FactSession(5)
    /\ Finished(1)
    /\ Returned(1, IntegerV(120))

\* C16: set! writes the innermost frame that binds the name, in place: it
\* yields Void and allocates no frame, closures that captured the frame read
\* the new value, and a set! done inside a closure is seen by the defining
\* scope and by the other closures over the frame.
SetMutatesInPlace ==
    \A a \in Ints : \A b \in Ints :
        /\ session = SetAtTop(a, b) /\ pos >= 3 =>
              /\ Returned(3, VoidV)
              /\ Len(frames) = 2
              /\ find("n", global_env, frames) = IntegerV(b)
        /\ session = SetAtTop(a, b) /\ Finished(4) => Returned(4, IntegerV(b))
        /\ session = SetInClosure(a, b) /\ pos >= 4 =>
              /\ Returned(4, VoidV)
              /\ Len(frames) = 3
        /\ session = SetInClosure(a, b) /\ Finished(6) =>
              /\ Returned(5, IntegerV(b))
              /\ Returned(6, IntegerV(b))
        /\ session = SetInnermost(a, b) /\ Finished(3) =>
              /\ Returned(2, IntegerV(b))
              /\ Returned(3, IntegerV(a))
SetSeenThroughClosure ==
    /\ session = SetInClosure(1, 2)
    /\ Finished(6)
    /\ Returned(5, IntegerV(2))

\* C17: (set-car! p c) and (set-cdr! p c) yield Void and write the pair in
\* place: car (resp. cdr) of p is then c, also through another reference q to
\* the same pair, the other field keeps its value, and no pair is allocated;
\* on a first operand that is not a pair they are a RuntimeError.
SetCarSetCdrMutateInPlace ==
    /\ \A a \in Ints : \A b \in Ints : \A c \in Ints :
          /\ session = SetField("set-car!", a, b, c) /\ pos >= 3 =>
                Returned(3, VoidV) /\ Len(pairs) = 1
          /\ session = SetField("set-cdr!", a, b, c) /\ pos >= 3 =>
                Returned(3, VoidV) /\ Len(pairs) = 1
          /\ session = SetField("set-car!", a, b, c) /\ Finished(7) =>
                /\ Returned(4, IntegerV(c)) /\ Returned(5, IntegerV(b))
                /\ Returned(6, IntegerV(c)) /\ Returned(7, IntegerV(b))
          /\ session = SetField("set-cdr!", a, b, c) /\ Finished(7) =>
                /\ Returned(4, IntegerV(a)) /\ Returned(5, IntegerV(c))
                /\ Returned(6, IntegerV(a)) /\ Returned(7, IntegerV(c))
    /\ \A op \in PairMutators : \A a \in Ints : \A c \in Ints :
          /\ session = SetFieldOfAtom(op, a, c) /\ Finished(1) =>
                res[1].k = "RuntimeError"
          /\ session = SetFieldOfNull(op, c) /\ Finished(1) =>
                res[1].k = "RuntimeError"
SetCarSeenThroughAlias ==
    /\ session = SetField("set-car!", 0, 1, 2)
    /\ Finished(7)
    /\ Returned(6, IntegerV(2))


\* C18: for integers a, b in the range: (+ a b) is the Integer a + b, (+) is
\* the Integer 0, (*) is the Integer 1, (- a) is the Integer -a, and (/ a)
\* for a # 0 is a Rational whose value is 1/a.
IsReciprocalOf(v, a) == v.t = "V_RATIONAL" /\ v.d # 0 /\ v.n * a = v.d
ArithmeticIdentities ==
    /\ \A a \in SignedInts : \A b \in SignedInts :
          session = Sum(a, b) /\ Finished(1) => Returned(1, IntegerV(a + b))
    /\ session = EmptySum /\ Finished(1) => Returned(1, IntegerV(0))
    /\ session = EmptyProduct /\ Finished(1) => Returned(1, IntegerV(1))
    /\ \A a \in SignedInts :
          /\ session = Negation(a) /\ Finished(1) => Returned(1, IntegerV(-a))
          /\ session = Reciprocal(a) /\ Finished(1) /\ a # 0 =>
                res[1].k = "ok" /\ IsReciprocalOf(res[1].v, a)
ReciprocalOfNegative ==
    /\ session = Reciprocal(-2)
    /\ Finished(1)
    /\ Returned(1, RationalV(1, -2))


\* C19: a comparison primitive (<, <=, =, >=, >) applied to zero or one
\* argument is a RuntimeError; applied to two or more integers it returns #t
\* exactly when the relation holds for every adjacent pair, #f otherwise.
ComparisonNames == {"<", "<=", "=", ">=", ">"}
Holds(op, a, b) ==
    CASE op = "<" -> a < b
      [] op = "<=" -> a <= b
      [] op = "=" -> a = b
      [] op = ">=" -> a >= b
      [] op = ">" -> a > b
ComparisonOf(form) == form.stxs[1].s
ComparedOf(form) == [i \in 1..(Len(form.stxs) - 1) |-> form.stxs[i + 1].n]
ComparisonChains ==
    session \in PrimitiveSessions /\ ComparisonOf(session[1]) \in ComparisonNames
        /\ pos >= 1 =>
        LET op == ComparisonOf(session[1])
            ns == ComparedOf(session[1])
        IN  IF Len(ns) < 2 THEN res[1].k = "RuntimeError"
            ELSE Returned(1, BooleanV(\A i \in 1..(Len(ns) - 1) :
                                          Holds(op, ns[i], ns[i + 1])))

ComparisonOfOneArgument ==
    /\ session[1] = Direct("<", <<Num(1)>>)
    /\ Finished(2)
    /\ Returned(1, BooleanV(TRUE))


\* C20: a top-level (/ 1 0), (/ a 0/1) or (modulo a 0) is a RuntimeError for
\* that form only: the forms before and after it succeed, the error step
\* leaves the global environment as it was, and the forms after it still see
\* the definitions made before it (y is a, (f b) is b + a).
ZeroDivisionIsRecovered ==
    \A a \in Ints : \A b \in Ints : \A z \in ZeroDivisions(a) :
        session = AroundZeroDivision(a, b, z) =>
            /\ pos >= 2 => res[1].k = "ok" /\ res[2].k = "ok"
            /\ pos >= 3 =>
                  /\ res[3].k = "RuntimeError"
                  /\ find("y", global_env, frames) = IntegerV(a)
                  /\ find("f", global_env, frames).t = "V_PROC"
            /\ pos = 3 => Len(frames) = 2
            /\ Finished(5) =>
                  Returned(4, IntegerV(a)) /\ Returned(5, IntegerV(b + a))
RecoveredAfterModuloZero ==
    /\ session = AroundZeroDivision(1, 2, Form("modulo", <<Num(1), Num(0)>>))
    /\ Finished(5)
    /\ res[3].k = "RuntimeError"
    /\ Returned(5, IntegerV(3))


RedefinitionSeenByEarlierProcedure ==
    \A a \in Ints : \A b \in Ints :
        session = Redefine(a, b) /\ Finished(5) =>
            Returned(4, IntegerV(b)) /\ Returned(5, IntegerV(b))
EarlierProcedureCalledAfterRedefinition ==
    /\ session = Redefine(1, 2)
    /\ Finished(5)
    /\ Returned(4, IntegerV(1))
    /\ Returned(5, IntegerV(2))


\* C23: (quote (d1 ... dn)) without a "." is the proper chain of d1 ... dn;
\* with exactly one "." immediately before the final element it is the
\* improper chain of the elements before the "." whose last cdr is the final
\* element; with a "." anywhere else, or more than one, it is a RuntimeError.
AtomValue(d) == IF d.k = "Number" THEN IntegerV(d.n) ELSE SymbolV(d.s)
RECURSIVE IsChain(_, _, _, _)
IsChain(v, pr, ds, last) ==
    IF ds = <<>> THEN v = last
    ELSE /\ v.t = "V_PAIR"
         /\ pr[v.p].car = AtomValue(Head(ds))
         /\ IsChain(pr[v.p].cdr, pr, Tail(ds), last)
DotsOf(ds) == {i \in 1..Len(ds) : ds[i] = Dot}
QuotedListConverted ==
    session \in DottedSessions /\ Finished(1) =>
        LET ds == session[1].stxs[2].stxs
            n == Len(ds)
        IN  IF DotsOf(ds) = {}
            THEN res[1].k = "ok" /\ IsChain(res[1].v, pairs, ds, NullV)
            ELSE IF DotsOf(ds) = {n - 1} /\ n >= 3
            THEN /\ res[1].k = "ok"
                 /\ IsChain(res[1].v, pairs, SubSeq(ds, 1, n - 2), AtomValue(ds[n]))
            ELSE n # 2 => res[1].k = "RuntimeError"
DottedPairQuoted ==
    /\ session = <<Form("quote", <<L(<<Num(1), Dot, Num(2)>>)>>)>>
    /\ Finished(1)
    /\ res[1].k = "ok"
    /\ IsChain(res[1].v, pairs, <<Num(1), Dot, Num(2)>>, NullV)


\* C24: reading a binding that letrec or define has pre-bound but not yet
\* filled is a RuntimeError: (letrec ((a b) (b k)) a) and (define x x) fail.
PlaceholderReadIsError ==
    /\ \A k \in Ints :
          session = LetrecEarlyRead(k) /\ Finished(1) => res[1].k = "RuntimeError"
    /\ session = DefineEarlyRead /\ pos >= 1 => res[1].k = "RuntimeError"
PlaceholderReadYieldsVoid ==
    /\ session = LetrecEarlyRead(1)
    /\ Finished(1)
    /\ Returned(1, VoidV)


\* C25: (+ v1 ... vn) and (* v1 ... vn) give what the left-to-right fold from
\* the identity (0, 1) with binary addition, multiplication gives, a
\* RuntimeError where the fold fails; (+ #t) and (* #t) fail.
OperandValue(d) ==
    CASE d.k = "Number" -> IntegerV(d.n)
      [] d.k = "RationalSyntax" -> RationalV(d.n, d.d)
      [] OTHER -> BooleanV(d.k = "TrueSyntax")
FoldFromIdentity(op, ds) ==
    foldValues(IF op = "+" THEN "add" ELSE "mul",
               IF op = "+" THEN IntegerV(0) ELSE IntegerV(1),
               [i \in 1..Len(ds) |-> OperandValue(ds[i])])
FoldsFromIdentity ==
    session \in FoldSessions /\ Finished(1) =>
        LET expected == FoldFromIdentity(session[1].stxs[1].s, Tail(session[1].stxs))
        IN  IF expected = Thrown THEN res[1].k = "RuntimeError"
            ELSE Returned(1, expected)
SingleBooleanSummed ==
    /\ session = <<Form("+", <<TrueS>>)>>
    /\ Finished(1)
    /\ Returned(1, BooleanV(TRUE))


\* C26: a call whose operator is not a procedure fails before its arguments
\* are evaluated; a call with the wrong number of arguments fails after its
\* arguments were evaluated, so their side effects have taken place:
\* after (f (set! t n) 2) with f of one parameter and t defined as 0, t is n.
ApplyChecksCountAfterArguments ==
    \A k \in Ints :
        /\ session = NotAProcedure(k) /\ Finished(4) =>
              res[3].k = "RuntimeError" /\ Returned(4, IntegerV(0))
        /\ session = ArityMatch(k) /\ Finished(4) =>
              res[3].k = "ok" /\ Returned(4, IntegerV(k + 1))
        /\ session = ArityMismatch(k) /\ Finished(4) =>
              res[3].k = "RuntimeError" /\ Returned(4, IntegerV(k + 1))
ArityMismatchLeavesNoEffect ==
    /\ session = ArityMismatch(1)
    /\ Finished(4)
    /\ res[3].k = "RuntimeError"
    /\ Returned(4, IntegerV(0))


\* C27: every Rational that +, -, *, / return on integers and on rationals
\* with positive denominators has a positive denominator, and for integers
\* a, b with b # 0, (< (/ a b) 0) is #t exactly when a / b is negative.
RationalsHavePositiveDenominator ==
    /\ session \in SignSessions /\ pos >= 1 /\ res[1].k = "ok"
          /\ res[1].v.t = "V_RATIONAL" => res[1].v.d > 0
    /\ \A a \in SignedInts : \A b \in SignedInts \ {0} :
          session = SignOf("/", Num(a), b) /\ Finished(2) =>
              Returned(2, BooleanV(a # 0 /\ ((a < 0) # (b < 0))))
DividedByNegative ==
    /\ session = SignOf("/", Num(1), -2)
    /\ Finished(2)
    /\ Returned(1, RationalV(1, -2))
    /\ Returned(2, BooleanV(FALSE))


\* C28: (expt b e) on integers is a RuntimeError when e < 0, when b = 0 and
\* e = 0, and when b^e is outside [INT_MIN, INT_MAX]; otherwise it is
\* exactly b^e.
RECURSIVE Power(_, _)
Power(b, e) ==
    IF e = 0 THEN [wide |-> FALSE, n |-> 1]
    ELSE LET r == Power(b, e - 1)
         IN  IF r.wide \/ OutsideInt(r.n, b) THEN [wide |-> TRUE, n |-> 0]
             ELSE [wide |-> FALSE, n |-> r.n * b]
ExptIsExactOrError ==
    \A b \in ExptBases : \A e \in ExptExponents :
        session = ExptOf(b, e) /\ Finished(1) =>
            IF e < 0 \/ (b = 0 /\ e = 0) THEN res[1].k = "RuntimeError"
            ELSE IF Power(b, e).wide THEN res[1].k = "RuntimeError"
            ELSE Returned(1, IntegerV(Power(b, e).n))
ExptAtLowerBound ==
    /\ session = ExptOf(-2, 31)
    /\ Finished(1)
    /\ Returned(1, IntegerV(INT_MIN))


\* the names of the frames of the chain l, from the head on
RECURSIVE NamesOf(_, _)
NamesOf(l, fr) == IF l = 0 THEN <<>> ELSE <<fr[l].x>> \o NamesOf(fr[l].next, fr)
FramesKept ==
    /\ res[3].k = "ok"
    /\ NamesOf(global_env, frames) = <<"f", "y">>
    /\ NamesOf(find("f", global_env, frames).env, frames) = <<"f", "y">>
    /\ pos >= 5 => res[4].k = "RuntimeError" /\ res[5].k = "RuntimeError"

\* C29 as stated: a call, a let or a letrec whose operator, arguments and
\* initializers are not define forms leaves the frames of its environment
\* and of the captured environment as they were, and z and x are unbound
\* after it; this includes an argument or initializer (begin (define z b) z).
FormKeepsFrames ==
    \A a \in Ints : \A b \in Ints :
        \A F \in DefinesInBody(b) \cup DefinesInOperand(b) :
            session = AroundForm(a, F) /\ pos >= 3 => FramesKept

\* C29: a call, a let or a letrec whose operator, arguments and initializers
\* evaluate no define in the form's own environment leaves the frames of
\* that environment and of the captured environment as they were; the
\* parameter x and the z defined in the body are unbound after it, and y
\* changes only where the body ran (set! y z).
FormWithoutOuterDefineKeepsFrames ==
    \A a \in Ints : \A b \in Ints : \A F \in DefinesInBody(b) :
        session = AroundForm(a, F) /\ pos >= 3 =>
            /\ FramesKept
            /\ Returned(3, IntegerV(b))
            /\ Finished(6) =>
                  Returned(6, IntegerV(IF F = Form("f", <<Num(b)>>) THEN b ELSE a))
BodyDefineGoneAfterCall ==
    /\ session = AroundForm(1, Form("f", <<Num(2)>>))
    /\ Finished(6)
    /\ Returned(3, IntegerV(2))
    /\ res[4].k = "RuntimeError"
    /\ Returned(6, IntegerV(2))


\* C30: (number? v) is #t when v is an Integer or a Rational and #f for
\* every other kind of value.
NumberPredicate ==
    /\ \A v \in NumericOperands :
          session = IsNumberOf(v) /\ Finished(1) => Returned(1, BooleanV(TRUE))
    /\ \A v \in OtherOperands :
          session = IsNumberOf(v) /\ Finished(1) => Returned(1, BooleanV(FALSE))
RationalIsNotANumber ==
    /\ session = IsNumberOf(Form("/", <<Num(1), Num(2)>>))
    /\ Finished(1)
    /\ Returned(1, BooleanV(FALSE))

=============================================================================
